---- MODULE Spec2Model ----
(***************************************************************************)
(* A state-machine model of the OS161-SHELL kernel additions: the process  *)
(* table and process lifecycle (kern/proc/proc.c), the process system      *)
(* calls (syscall_PROC.c), the file system calls (syscall_FILE.c) and the   *)
(* sleep-lock / condition variable they rely on (kern/thread/synch.c).     *)
(*                                                                         *)
(* Every user process has exactly one kernel thread; thread t is the       *)
(* thread created for process structure t.  A system call is a sequence    *)
(* of steps; between two steps of one thread any other thread may run.     *)
(***************************************************************************)
EXTENDS Integers, Sequences, FiniteSets, TLC

(***************************************************************************)
(* Bounds of the model.                                                    *)
(***************************************************************************)
PROC_MAX == 4          \* slots 1..PROC_MAX of the process table (100 in the source)
OPEN_MAX == 6          \* descriptors 0..OPEN_MAX-1 of a process
SysFactor == 1         \* SYSTEM_OPEN_MAX is SysFactor * OPEN_MAX (factor 10 in the source)
NFileLocks == 3        \* lock structures lock_create can hand out to open()
MaxCalls == 4          \* system calls started in one behaviour of Spec
MaxFileCalls == 3      \* system calls started in one behaviour of SpecFile
MaxRaceCalls == 4      \* system calls started in one behaviour of SpecRace
MaxPidCalls == 5       \* system calls started in one behaviour of SpecPid
MaxOffset == 2         \* largest seek offset followed
MaxExecCalls == 3      \* system calls started in one behaviour of SpecExec
MaxForkCalls == 3      \* system calls started in one behaviour of SpecFork

NULL == 0
VN_CON == 1            \* the vnode of the console device "con:"
VN_FILE == 2           \* the vnode of a regular file
NOVAL == -1            \* "nothing written" marker for user memory

NProcObjs == PROC_MAX  \* proc structures the kernel heap can hold
ProcObjs == 1..NProcObjs
KPROC == NProcObjs + 1 \* the kernel process structure
Pids == 0..PROC_MAX
Fds == 0..(OPEN_MAX - 1)
SYSTEM_OPEN_MAX == SysFactor * OPEN_MAX

(* identities of the open-file structures: the static system table and the *)
(* three console structures kmalloc'ed for each process structure          *)
SysOf == 1..SYSTEM_OPEN_MAX
ConOf(o, k) == SYSTEM_OPEN_MAX + 3 * (o - 1) + k + 1
OfIds == 1..(SYSTEM_OPEN_MAX + 3 * NProcObjs)

(* identities of the lock structures *)
ProcLock(o) == o
ConLock(o, k) == NProcObjs + 3 * (o - 1) + k + 1
FileLock(j) == 4 * NProcObjs + j
LockIds == 1..(4 * NProcObjs + NFileLocks)
IsProcLock(l) == l \in ProcObjs

(* kern/wait.h and kern/fcntl.h values *)
WNOHANG == 1
O_RDONLY == 0
O_WRONLY == 1
O_RDWR == 2
O_APPEND == 32
O_ACCMODE == 3

VARIABLES
    processTable,   \* [proc: pid -> proc structure or NULL, last_pid]
    procs,          \* proc structure -> its fields
    cvs,            \* proc structure -> threads asleep on p_cv's wait channel
    locks,          \* lock structure -> [lk_owner, lk_wchan]
    openfiles,      \* open-file structure -> its fields
    threads,        \* thread -> program counter and locals of its system call
    panicked,       \* the kernel has panicked (a KASSERT or a fatal fault)
    budget,         \* system calls that may still be started
    filesize        \* size of the regular file behind VN_FILE

vars == <<processTable, procs, cvs, locks, openfiles, threads, panicked, budget,
          filesize>>

(***************************************************************************)
(* Records.                                                                *)
(***************************************************************************)
NoThread ==
    [pc |-> "none", t_proc |-> NULL, call |-> "", args |-> <<0, 0, 0>>,
     err |-> "", retval |-> NOVAL, ustatus |-> NOVAL,
     proc |-> NULL, index |-> 0, of |-> NULL, lk |-> NULL, cont |-> "",
     koff |-> 0, v |-> NULL, serial |-> 0]

UserThread(o) == [NoThread EXCEPT !.pc = "user", !.t_proc = o]

FreeProc ==
    [alloc |-> FALSE, p_pid |-> -1, p_numthreads |-> 0, p_status |-> 0,
     parent_pid |-> -1, children_list |-> <<>>,
     fileTable |-> [fd \in Fds |-> NULL], sync |-> FALSE, exitcode |-> NOVAL,
     origin |-> [fd \in Fds |-> 0], opened |-> [fd \in Fds |-> 0],
     p_addrspace |-> NULL, as_destroyed |-> {}, execvn |-> 0]

FreeLock == [lk_owner |-> NULL, lk_wchan |-> <<>>]

NoFile == [vn |-> NULL, offset |-> 0, mode_open |-> 0, count_refs |-> 0, lock |-> NULL]

(***************************************************************************)
(* kern/proc/proc.c                                                        *)
(***************************************************************************)
NextIndex(index) == IF index + 1 > PROC_MAX THEN 1 ELSE index + 1

(* the loop shared by find_valid_pid and proc_init: the first empty slot   *)
(* met from index on, stopping at last_pid; fuel bounds the scan when      *)
(* last_pid is 0 and the loop of the source would not end                   *)
RECURSIVE ScanFrom(_, _, _, _)
ScanFrom(table, index, last, fuel) ==
    IF index = last \/ fuel = 0 THEN last
    ELSE IF table[index] = NULL THEN index
    ELSE ScanFrom(table, NextIndex(index), last, fuel - 1)

find_valid_pid(pt) ==
    LET index == ScanFrom(pt.proc, NextIndex(pt.last_pid), pt.last_pid, PROC_MAX)
    IN  IF index = pt.last_pid THEN -1 ELSE index

proc_add(pt, pid, obj) ==
    IF pid <= 0 \/ pid > PROC_MAX + 1 \/ obj = NULL THEN pt
    ELSE [proc |-> [pt.proc EXCEPT ![pid] = obj], last_pid |-> pid]

(* proc_search: NULL, the structure, or FAULT for the read of p_pid through *)
(* a null table entry (a fatal kernel fault)                                *)
FAULT == -1
proc_search(pt, ps, pid) ==
    IF pid <= 0 \/ pid > PROC_MAX THEN NULL
    ELSE IF pt.proc[pid] = NULL THEN FAULT
    ELSE IF ps[pt.proc[pid]].p_pid # pid THEN NULL
    ELSE pt.proc[pid]

is_child_bad(p, child_pid) == 0

is_child(p, child_pid) ==
    IF \E i \in 1..Len(p.children_list) : p.children_list[i] = child_pid
    THEN 0 ELSE -1

add_new_child(p, child_pid) ==
    [p EXCEPT !.children_list = Append(@, child_pid)]

(* remove_child_from_list: the first entry equal to child_pid is unlinked; *)
(* ok is FALSE (-1 in the source) when there is none                        *)
RECURSIVE RemoveFirst(_, _)
RemoveFirst(s, x) ==
    IF s = <<>> THEN <<>>
    ELSE IF Head(s) = x THEN Tail(s)
    ELSE <<Head(s)>> \o RemoveFirst(Tail(s), x)

remove_child_from_list(p, child_pid) ==
    [ok |-> is_child(p, child_pid) = 0,
     p  |-> [p EXCEPT !.children_list = RemoveFirst(@, child_pid)]]

(* destroy_child_list: entries are unlinked from the head; each child found *)
(* in the table becomes an orphan; a child not found stops the walk (-1)    *)
RECURSIVE destroy_child_list(_, _, _)
destroy_child_list(pt, ps, obj) ==
    IF ps[obj].children_list = <<>> THEN [ok |-> TRUE, ps |-> ps]
    ELSE LET child == Head(ps[obj].children_list)
             ps1 == [ps EXCEPT ![obj].children_list = Tail(@)]
             cp == proc_search(pt, ps1, child)
         IN  IF cp = NULL \/ cp = FAULT THEN [ok |-> FALSE, ps |-> ps1]
             ELSE destroy_child_list(pt,
                      [ps1 EXCEPT ![cp].parent_pid = -1], obj)

(* proc_deinit: ok is FALSE when the source returns non-zero (or faults),   *)
(* upon which proc_destroy panics                                           *)
proc_deinit(pt, ps, obj) ==
    LET index == ps[obj].p_pid
    IN  IF index <= 0 \/ index > PROC_MAX THEN [ok |-> FALSE, pt |-> pt, ps |-> ps]
        ELSE
        LET pt1 == [pt EXCEPT !.proc[index] = NULL]
            ps1 == [ps EXCEPT ![obj].sync = FALSE]
            d == destroy_child_list(pt1, ps1, obj)
            ppid == d.ps[obj].parent_pid
            parent == proc_search(pt1, d.ps, ppid)
        IN  IF ~d.ok THEN [ok |-> FALSE, pt |-> pt1, ps |-> d.ps]
            ELSE IF ppid = -1 THEN [ok |-> TRUE, pt |-> pt1, ps |-> d.ps]
            ELSE IF parent = NULL \/ parent = FAULT
                 THEN [ok |-> FALSE, pt |-> pt1, ps |-> d.ps]
            ELSE LET r == remove_child_from_list(d.ps[parent], ps[obj].p_pid)
                 IN  [ok |-> r.ok, pt |-> pt1,
                      ps |-> [d.ps EXCEPT ![parent] = r.p]]

(* proc_destroy: the KASSERTs, proc_deinit, then the structure is freed     *)
proc_destroy(pt, ps, obj) ==
    IF obj = NULL \/ obj = KPROC \/ ps[obj].p_numthreads # 0
    THEN [ok |-> FALSE, pt |-> pt, ps |-> ps]
    ELSE LET d == proc_deinit(pt, ps, obj)
         IN  IF ~d.ok THEN d
             ELSE [ok |-> TRUE, pt |-> d.pt,
                   ps |-> [d.ps EXCEPT ![obj].alloc = FALSE]]

(* console_init: one console open-file structure with its own lock          *)
console_init(flag, lockid) ==
    [vn |-> VN_CON, offset |-> 0, mode_open |-> flag, count_refs |-> 1,
     lock |-> lockid]

(* every console descriptor is opened read-only *)
ConsoleFlag_rdonly(k) == O_RDONLY

ConsoleFlag(k) == IF k = 0 THEN O_RDONLY ELSE O_WRONLY

(* the scan always ends at slot 1 *)
proc_init_first(pt) == 1

(* proc_init: the slot found by the circular scan is taken under the table *)
(* spinlock; -1 when the scan finds none                                    *)
proc_init(pt) ==
    LET index == ScanFrom(pt.proc, NextIndex(pt.last_pid), pt.last_pid, PROC_MAX)
    IN  IF index = pt.last_pid THEN -1 ELSE index

(* proc_create + proc_create_runprogram on a fresh structure obj registered *)
(* at slot pid: the fields of the new process.  origin[fd] remembers which  *)
(* call filled slot fd: the serial of the open, the origin of the source    *)
(* slot for dup2, a negative number for the console slots; opened[fd]       *)
(* remembers the access mode the descriptor was opened with.  p_addrspace *)
(* is the address space the process has when its thread first runs (made   *)
(* by runprogram, or by as_copy in fork): address spaces of one process    *)
(* are numbered 1, 2, ...; as_destroyed holds the ones as_destroy was      *)
(* called on and execvn counts the executable vnodes execv holds open      *)
proc_create_runprogram(obj, pid) ==
    [alloc |-> TRUE, p_pid |-> pid, p_numthreads |-> 0, p_status |-> 0,
     parent_pid |-> -1, children_list |-> <<>>,
     fileTable |-> [fd \in Fds |-> IF fd < 3 THEN ConOf(obj, fd) ELSE NULL],
     sync |-> TRUE, exitcode |-> NOVAL,
     origin |-> [fd \in Fds |-> IF fd < 3 THEN -(fd + 1) ELSE 0],
     opened |-> [fd \in Fds |-> IF fd < 3 THEN ConsoleFlag(fd) ELSE 0],
     p_addrspace |-> 1, as_destroyed |-> {}, execvn |-> 0]

ConsoleFiles(ofs, obj) ==
    [f \in OfIds |->
        IF \E k \in 0..2 : f = ConOf(obj, k)
        THEN LET k == CHOOSE k \in 0..2 : f = ConOf(obj, k)
             IN  console_init(ConsoleFlag(k), ConLock(obj, k))
        ELSE ofs[f]]

ConsoleLocks(lks, obj) ==
    [l \in LockIds |->
        IF l = ProcLock(obj) \/ \E k \in 0..2 : l = ConLock(obj, k)
        THEN FreeLock ELSE lks[l]]

(* _MKWAIT_EXIT of kern/wait.h: the exit code in the low 8 bits *)
MKWAIT_EXIT(exitcode) == exitcode % 256

(***************************************************************************)
(* Initial state: proc_bootstrap has run and the kernel menu has started   *)
(* the first user program, which is process 1 with no parent.              *)
(***************************************************************************)
Init ==
    /\ processTable =
          [proc |-> [i \in Pids |-> IF i = 0 THEN KPROC ELSE IF i = 1 THEN 1 ELSE NULL],
           last_pid |-> 1]
    /\ procs = [o \in ProcObjs |->
          IF o = 1 THEN [proc_create_runprogram(1, 1) EXCEPT !.p_numthreads = 1]
          ELSE FreeProc]
    /\ cvs = [o \in ProcObjs |-> <<>>]
    /\ locks = [l \in LockIds |-> FreeLock]
    /\ openfiles = ConsoleFiles([f \in OfIds |-> NoFile], 1)
    /\ threads = [o \in ProcObjs |-> IF o = 1 THEN UserThread(1) ELSE NoThread]
    /\ panicked = FALSE
    /\ budget = MaxCalls
    /\ filesize = 0

(***************************************************************************)
(* Helpers for the steps of a thread.                                      *)
(***************************************************************************)
CanRun(t) == ~panicked /\ threads[t].pc # "none"
At(t, pc) == CanRun(t) /\ threads[t].pc = pc
(* every thread works on the file table of the first process *)
curproc_first(t) == 1

curproc(t) == threads[t].t_proc

(* a thread in user mode traps into the kernel *)
Trap(t) == At(t, "user") /\ budget > 0

(* a system call starts: the thread leaves user mode *)
Enter(t, call, args, pc) ==
    [threads[t] EXCEPT !.pc = pc, !.call = call, !.args = args]

(* a system call result is ready: the thread is about to return to user mode *)
Ret(th, e, rv) == [th EXCEPT !.pc = "ret", !.err = e, !.retval = rv]

Panic == panicked' = TRUE

(* the owner is cleared and nobody is woken *)
WakeLock_nowake(lks, ths, l) ==
    [locks |-> [lks EXCEPT ![l].lk_owner = NULL], threads |-> ths]

(* lock_release on lock l: the owner is cleared and the first thread asleep *)
(* on the lock's wait channel is made runnable (it re-tests lk_owner)       *)
WakeLock(lks, ths, l) ==
    IF lks[l].lk_wchan = <<>>
    THEN [locks |-> [lks EXCEPT ![l].lk_owner = NULL], threads |-> ths]
    ELSE [locks |-> [lks EXCEPT ![l].lk_owner = NULL, ![l].lk_wchan = Tail(@)],
          threads |-> [ths EXCEPT ![Head(lks[l].lk_wchan)].pc = "lock_acquire"]]

(* a lock that lives in a proc structure whose p_locklock was destroyed *)
LockGone(l) == IsProcLock(l) /\ ~procs[l].sync

(***************************************************************************)
(* kern/thread/synch.c                                                     *)
(***************************************************************************)
(* the owner is taken whether the lock is free or not *)
lock_acquire_notest(t) ==
    /\ At(t, "lock_acquire")
    /\ locks' = [locks EXCEPT ![threads[t].lk].lk_owner = t]
    /\ threads' = [threads EXCEPT ![t].pc = threads[t].cont]
    /\ UNCHANGED <<processTable, procs, cvs, openfiles, panicked, budget, filesize>>

(* lock_acquire by a thread whose next statement is lock_acquire(lk): the   *)
(* KASSERTs, then the owner is taken or the thread sleeps on the channel    *)
lock_acquire(t) ==
    /\ At(t, "lock_acquire")
    /\ LET th == threads[t]
           l == th.lk
       IN  IF l = NULL \/ locks[l].lk_owner = t
           THEN Panic /\ UNCHANGED <<locks, threads>>
           ELSE IF locks[l].lk_owner = NULL
           THEN /\ locks' = [locks EXCEPT ![l].lk_owner = t]
                /\ threads' = [threads EXCEPT ![t].pc = th.cont]
                /\ UNCHANGED panicked
           ELSE /\ locks' = [locks EXCEPT ![l].lk_wchan = Append(@, t)]
                /\ threads' = [threads EXCEPT ![t].pc = "lock_sleep"]
                /\ UNCHANGED panicked
    /\ UNCHANGED <<processTable, procs, cvs, openfiles, budget, filesize>>

(* the same statement on a lock whose memory has been freed: the stale      *)
(* structure may still behave as before, or the kernel faults               *)
lock_use_after_free(t) ==
    /\ CanRun(t)
    /\ threads[t].pc \in {"lock_acquire", "ex_signal", "ex_release"}
    /\ threads[t].lk # NULL /\ LockGone(threads[t].lk)
    /\ Panic
    /\ UNCHANGED <<processTable, procs, cvs, locks, openfiles, threads, budget, filesize>>

(***************************************************************************)
(* syscall_PROC.c: sys_waitpid_SHELL                                       *)
(***************************************************************************)
(* the status pointer is held as the value of (int) status *)
INVAL_PTR == 1073741824           \* 0x40000000
KERN_PTR == (-2147483647) - 1     \* 0x80000000

(* the checks in the order options, status, child *)
WaitArgCheck_optionsfirst(me, pid, status, options) ==
    IF pid = me.p_pid THEN "ECHILD"
    ELSE IF options # 0 /\ options # WNOHANG THEN "EINVAL"
    ELSE IF status = NULL THEN "NULLSTATUS"
    ELSE IF status = INVAL_PTR \/ status = KERN_PTR THEN "EFAULT"
    ELSE IF status % 4 # 0 THEN "EFAULT"
    ELSE IF is_child(me, pid) = -1 THEN "ECHILD"
    ELSE IF options = 0 THEN "WAIT"
    ELSE "WNOHANG"

(* WNOHANG is treated like options 0: the call goes on to wait *)
WaitArgCheck_nohangwaits(me, pid, status, options) ==
    IF pid = me.p_pid THEN "ECHILD"
    ELSE IF status = NULL THEN "NULLSTATUS"
    ELSE IF status = INVAL_PTR \/ status = KERN_PTR THEN "EFAULT"
    ELSE IF status % 4 # 0 THEN "EFAULT"
    ELSE IF is_child(me, pid) = -1 THEN "ECHILD"
    ELSE IF options = 0 \/ options = WNOHANG THEN "WAIT"
    ELSE "EINVAL"

WaitArgCheck(me, pid, status, options) ==
    IF pid = me.p_pid THEN "ECHILD"
    ELSE IF status = NULL THEN "NULLSTATUS"
    ELSE IF status = INVAL_PTR \/ status = KERN_PTR THEN "EFAULT"
    ELSE IF status % 4 # 0 THEN "EFAULT"
    ELSE IF is_child(me, pid) = -1 THEN "ECHILD"
    ELSE IF options = 0 THEN "WAIT"
    ELSE IF options = WNOHANG THEN "WNOHANG"
    ELSE "EINVAL"

sys_waitpid_SHELL(t, pid, status, options) ==
    /\ Trap(t)
    /\ budget' = budget - 1
    /\ LET th == Enter(t, "waitpid", <<pid, status, options>>, "wp_search")
           c == WaitArgCheck(procs[curproc(t)], pid, status, options)
       IN  threads' = [threads EXCEPT ![t] =
              CASE c = "WAIT" -> th
                [] c = "NULLSTATUS" -> Ret(th, "OK", pid)
                [] c = "WNOHANG" -> Ret([th EXCEPT !.ustatus = 0], "OK", pid)
                [] OTHER -> Ret(th, c, NOVAL)]
    /\ UNCHANGED <<processTable, procs, cvs, locks, openfiles, panicked, filesize>>

(* struct proc *proc = proc_search(pid) *)
waitpid_search(t) ==
    /\ At(t, "wp_search")
    /\ LET th == threads[t]
           p == proc_search(processTable, procs, th.args[1])
       IN  IF p = FAULT THEN Panic /\ UNCHANGED threads
           ELSE /\ UNCHANGED panicked
                /\ threads' = [threads EXCEPT ![t] =
                      IF p = NULL THEN Ret(th, "ESRCH", NOVAL)
                      ELSE [th EXCEPT !.proc = p, !.pc = "wp_numthreads"]]
    /\ UNCHANGED <<processTable, procs, cvs, locks, openfiles, budget, filesize>>

(* if (proc->p_numthreads == 0) ... else lock_acquire(proc->p_locklock) *)
waitpid_numthreads(t) ==
    /\ At(t, "wp_numthreads")
    /\ LET th == threads[t]
       IN  threads' = [threads EXCEPT ![t] =
              IF procs[th.proc].p_numthreads = 0
              THEN [th EXCEPT !.pc = "wp_status"]
              ELSE [th EXCEPT !.pc = "lock_acquire", !.lk = ProcLock(th.proc),
                              !.cont = "wp_cv_wait"]]
    /\ UNCHANGED <<processTable, procs, cvs, locks, openfiles, panicked, budget, filesize>>

(* cv_wait, first half: under the cv's spinlock the lock is released and    *)
(* the thread goes to sleep on the cv's wait channel                        *)
cv_wait(t) ==
    /\ At(t, "wp_cv_wait")
    /\ LET th == threads[t]
           w == WakeLock(locks, threads, th.lk)
       IN  IF locks[th.lk].lk_owner # t
           THEN Panic /\ UNCHANGED <<locks, threads, cvs>>
           ELSE /\ locks' = w.locks
                /\ threads' = [w.threads EXCEPT ![t].pc = "cv_sleep"]
                /\ cvs' = [cvs EXCEPT ![th.proc] = Append(@, t)]
                /\ UNCHANGED panicked
    /\ UNCHANGED <<processTable, procs, openfiles, budget, filesize>>

(* lock_release(proc->p_locklock) after cv_wait has re-acquired the lock *)
waitpid_release(t) ==
    /\ At(t, "wp_release")
    /\ LET th == threads[t]
           w == WakeLock(locks, threads, th.lk)
       IN  IF locks[th.lk].lk_owner # t
           THEN Panic /\ UNCHANGED <<locks, threads>>
           ELSE /\ locks' = w.locks
                /\ threads' = [w.threads EXCEPT ![t].pc = "wp_status"]
                /\ UNCHANGED panicked
    /\ UNCHANGED <<processTable, procs, cvs, openfiles, budget, filesize>>

(* *status = proc->p_status; *retval = proc->p_pid *)
waitpid_status(t) ==
    /\ At(t, "wp_status")
    /\ LET th == threads[t]
       IN  threads' = [threads EXCEPT ![t] =
              [th EXCEPT !.ustatus = procs[th.proc].p_status,
                         !.retval = procs[th.proc].p_pid,
                         !.pc = "wp_destroy"]]
    /\ UNCHANGED <<processTable, procs, cvs, locks, openfiles, panicked, budget, filesize>>

(* proc_destroy(proc); return 0 *)
waitpid_destroy(t) ==
    /\ At(t, "wp_destroy")
    /\ LET th == threads[t]
           d == proc_destroy(processTable, procs, th.proc)
       IN  /\ processTable' = d.pt
           /\ procs' = d.ps
           /\ IF d.ok
              THEN /\ threads' = [threads EXCEPT ![t] = Ret(th, "OK", th.retval)]
                   /\ UNCHANGED panicked
              ELSE Panic /\ UNCHANGED threads
    /\ UNCHANGED <<cvs, locks, openfiles, budget, filesize>>

(***************************************************************************)
(* syscall_PROC.c: sys_exit_SHELL                                          *)
(***************************************************************************)
(* proc->p_status = _MKWAIT_EXIT(exitcode); the field exitcode remembers   *)
(* the argument the process passed to _exit (NOVAL until it calls _exit)    *)
exit_status_unset(p, exitcode) == [p EXCEPT !.exitcode = exitcode]

exit_status(p, exitcode) ==
    [p EXCEPT !.p_status = MKWAIT_EXIT(exitcode), !.exitcode = exitcode]

(* proc = curproc; proc->p_status = _MKWAIT_EXIT(exitcode) *)
sys_exit_SHELL(t, exitcode) ==
    /\ Trap(t)
    /\ budget' = budget - 1
    /\ procs' = [procs EXCEPT ![curproc(t)] = exit_status(@, exitcode)]
    /\ threads' = [threads EXCEPT ![t] =
          [Enter(t, "exit", <<exitcode, 0, 0>>, "ex_remthread")
              EXCEPT !.proc = curproc(t)]]
    /\ UNCHANGED <<processTable, cvs, locks, openfiles, panicked, filesize>>

(* the exiting thread stays attached to its process *)
proc_remthread_attached(t) ==
    /\ At(t, "ex_remthread")
    /\ LET th == threads[t]
       IN  IF procs[th.proc].p_numthreads <= 0
           THEN Panic /\ UNCHANGED <<procs, threads>>
           ELSE /\ UNCHANGED procs
                /\ threads' = [threads EXCEPT ![t] =
                      [th EXCEPT !.pc = "lock_acquire",
                                 !.lk = ProcLock(th.proc), !.cont = "ex_signal"]]
                /\ UNCHANGED panicked
    /\ UNCHANGED <<processTable, cvs, locks, openfiles, budget, filesize>>

(* proc_remthread(curthread); then lock_acquire(proc->p_locklock) is next *)
proc_remthread(t) ==
    /\ At(t, "ex_remthread")
    /\ LET th == threads[t]
       IN  IF procs[th.proc].p_numthreads <= 0
           THEN Panic /\ UNCHANGED <<procs, threads>>
           ELSE /\ procs' = [procs EXCEPT ![th.proc].p_numthreads = @ - 1]
                /\ threads' = [threads EXCEPT ![t] =
                      [th EXCEPT !.t_proc = NULL, !.pc = "lock_acquire",
                                 !.lk = ProcLock(th.proc), !.cont = "ex_signal"]]
                /\ UNCHANGED panicked
    /\ UNCHANGED <<processTable, cvs, locks, openfiles, budget, filesize>>

(* cv_signal(proc->p_cv, proc->p_locklock): the first thread asleep on the *)
(* cv's wait channel is woken and goes on to re-acquire the lock            *)
cv_signal(t) ==
    /\ At(t, "ex_signal")
    /\ LET th == threads[t]
           q == cvs[th.proc]
       IN  IF locks[th.lk].lk_owner # t
           THEN Panic /\ UNCHANGED <<threads, cvs>>
           ELSE /\ UNCHANGED panicked
                /\ IF q = <<>>
                   THEN /\ threads' = [threads EXCEPT ![t].pc = "ex_release"]
                        /\ UNCHANGED cvs
                   ELSE /\ cvs' = [cvs EXCEPT ![th.proc] = Tail(q)]
                        /\ threads' = [threads EXCEPT
                              ![t].pc = "ex_release",
                              ![Head(q)].pc = "lock_acquire",
                              ![Head(q)].cont = "wp_release"]
    /\ UNCHANGED <<processTable, procs, locks, openfiles, budget, filesize>>

(* lock_release(proc->p_locklock); thread_exit() *)
exit_release(t) ==
    /\ At(t, "ex_release")
    /\ LET th == threads[t]
           w == WakeLock(locks, threads, th.lk)
       IN  IF locks[th.lk].lk_owner # t
           THEN Panic /\ UNCHANGED <<locks, threads>>
           ELSE /\ locks' = w.locks
                /\ threads' = [w.threads EXCEPT ![t] = NoThread]
                /\ UNCHANGED panicked
    /\ UNCHANGED <<processTable, procs, cvs, openfiles, budget, filesize>>

(***************************************************************************)
(* syscall_PROC.c: sys_fork_SHELL                                          *)
(***************************************************************************)
FreeObjs == {o \in ProcObjs : ~procs[o].alloc /\ threads[o].pc = "none"}
LowestFree == CHOOSE o \in FreeObjs : \A x \in FreeObjs : o <= x

(* int index = find_valid_pid() *)
sys_fork_SHELL(t) ==
    /\ Trap(t)
    /\ budget' = budget - 1
    /\ LET th == Enter(t, "fork", <<0, 0, 0>>, "fk_create")
           index == find_valid_pid(processTable)
       IN  threads' = [threads EXCEPT ![t] =
              IF index <= 0 THEN Ret(th, "ENPROC", NOVAL)
              ELSE [th EXCEPT !.index = index]]
    /\ UNCHANGED <<processTable, procs, cvs, locks, openfiles, panicked, filesize>>

(* newproc = proc_create_runprogram(...); as_copy; the trapframe copy;      *)
(* add_new_child(father, newproc->p_pid); newproc->parent_pid = father pid  *)
fork_create(t) ==
    /\ At(t, "fk_create")
    /\ LET th == threads[t]
           father == curproc(t)
           pid == proc_init(processTable)
       IN  IF FreeObjs = {} \/ pid <= 0
           THEN /\ threads' = [threads EXCEPT ![t] = Ret(th, "ENOMEM", NOVAL)]
                /\ UNCHANGED <<processTable, procs, cvs, locks, openfiles>>
           ELSE LET obj == LowestFree
                IN  /\ processTable' =
                          [proc |-> [processTable.proc EXCEPT ![pid] = obj],
                           last_pid |-> pid]
                    /\ procs' = [procs EXCEPT
                          ![obj] = [proc_create_runprogram(obj, pid)
                                       EXCEPT !.parent_pid = procs[father].p_pid],
                          ![father] = add_new_child(@, pid)]
                    /\ cvs' = [cvs EXCEPT ![obj] = <<>>]
                    /\ locks' = ConsoleLocks(locks, obj)
                    /\ openfiles' = ConsoleFiles(openfiles, obj)
                    /\ threads' = [threads EXCEPT ![t] =
                          [th EXCEPT !.proc = obj, !.pc = "fk_add"]]
    /\ UNCHANGED <<panicked, budget, filesize>>

(* err = proc_add((pid_t) index, newproc) *)
fork_proc_add(t) ==
    /\ At(t, "fk_add")
    /\ processTable' = proc_add(processTable, threads[t].index, threads[t].proc)
    /\ threads' = [threads EXCEPT ![t].pc = "fk_thread"]
    /\ UNCHANGED <<procs, cvs, locks, openfiles, panicked, budget, filesize>>

(* thread_fork(...): the child thread is attached to newproc and made       *)
(* runnable; *retval = newproc->p_pid                                       *)
fork_thread(t) ==
    /\ At(t, "fk_thread")
    /\ LET th == threads[t]
       IN  /\ procs' = [procs EXCEPT ![th.proc].p_numthreads = @ + 1]
           /\ threads' = [threads EXCEPT
                 ![t] = Ret(th, "OK", procs[th.proc].p_pid),
                 ![th.proc] = UserThread(th.proc)]
    /\ UNCHANGED <<processTable, cvs, locks, openfiles, panicked, budget, filesize>>

(* the failures of sys_fork_SHELL after find_valid_pid, by the allocation  *)
(* that fails:                                                              *)
(*   "proc"     kmalloc or kstrdup in proc_create: nothing was done;        *)
(*   "sync"     cv_create or lock_create in proc_init, after the slot was   *)
(*              given to the structure: proc_create frees the structure;    *)
(*   "console"  console_init in proc_create_runprogram, which returns NULL  *)
(*              and leaves the structure where it is;                       *)
(*   "as_copy", "tf", "child"  as_copy, the trapframe copy, add_new_child:  *)
(*              proc_destroy(newproc)                                       *)
fork_create_nomem(t, fail) ==
    /\ At(t, "fk_create")
    /\ FreeObjs # {} /\ proc_init(processTable) > 0
    /\ LET th == threads[t]
           pid == proc_init(processTable)
           obj == LowestFree
           pt1 == [proc |-> [processTable.proc EXCEPT ![pid] = obj], last_pid |-> pid]
           ps1 == [procs EXCEPT ![obj] = proc_create_runprogram(obj, pid)]
           d == proc_destroy(pt1, ps1, obj)
           ret == Ret([th EXCEPT !.proc = IF fail = "proc" THEN NULL ELSE obj],
                      "ENOMEM", NOVAL)
       IN  CASE fail = "proc" ->
                  /\ threads' = [threads EXCEPT ![t] = ret]
                  /\ UNCHANGED <<processTable, procs, cvs, locks, openfiles, panicked>>
             [] fail = "sync" ->
                  /\ processTable' = pt1
                  /\ procs' = [procs EXCEPT ![obj] = [FreeProc EXCEPT !.p_pid = pid]]
                  /\ threads' = [threads EXCEPT ![t] = ret]
                  /\ UNCHANGED <<cvs, locks, openfiles, panicked>>
             [] fail = "console" ->
                  /\ processTable' = pt1
                  /\ procs' = [ps1 EXCEPT ![obj].fileTable = [fd \in Fds |-> NULL]]
                  /\ cvs' = [cvs EXCEPT ![obj] = <<>>]
                  /\ locks' = ConsoleLocks(locks, obj)
                  /\ threads' = [threads EXCEPT ![t] = ret]
                  /\ UNCHANGED <<openfiles, panicked>>
             [] OTHER ->
                  IF ~d.ok THEN Panic /\ UNCHANGED <<processTable, procs, cvs, locks,
                                                     openfiles, threads>>
                  ELSE /\ processTable' = d.pt
                       /\ procs' = d.ps
                       /\ cvs' = [cvs EXCEPT ![obj] = <<>>]
                       /\ locks' = ConsoleLocks(locks, obj)
                       /\ openfiles' = ConsoleFiles(openfiles, obj)
                       /\ threads' = [threads EXCEPT ![t] = ret]
                       /\ UNCHANGED panicked
    /\ UNCHANGED <<budget, filesize>>

(* thread_fork fails: proc_destroy(newproc); kfree(tf_child); return err *)
fork_thread_fail(t) ==
    /\ At(t, "fk_thread")
    /\ LET th == threads[t]
           d == proc_destroy(processTable, procs, th.proc)
       IN  IF ~d.ok THEN Panic /\ UNCHANGED <<processTable, procs, threads>>
           ELSE /\ processTable' = d.pt
                /\ procs' = d.ps
                /\ threads' = [threads EXCEPT ![t] = Ret(th, "ENOMEM", NOVAL)]
                /\ UNCHANGED panicked
    /\ UNCHANGED <<cvs, locks, openfiles, budget, filesize>>

(***************************************************************************)
(* syscall_FILE.c: sys_open_SHELL                                          *)
(***************************************************************************)
PATH_NONE == 3         \* a pathname that names no file

(* vfs_open: the vnode behind the pathname, or the error *)
vfs_open(path, openflags) ==
    IF path = PATH_NONE THEN [err |-> "ENOENT", v |-> NULL]
    ELSE [err |-> "OK", v |-> path]

(* VOP_STAT: st_size of the vnode *)
VOP_STAT(vn) == IF vn = VN_FILE THEN filesize ELSE 0

(* the scan of systemFileTable for an entry whose vn is NULL *)
FreeSlot(ofs) ==
    IF \E f \in SysOf : ofs[f].vn = NULL
    THEN CHOOSE f \in SysOf : ofs[f].vn = NULL /\ \A g \in 1..(f - 1) : ofs[g].vn # NULL
    ELSE NULL

(* the scan of curproc->fileTable from 3: the first empty slot, OPEN_MAX   *)
(* when the loop runs to its end                                            *)
FreeFd(p) ==
    IF \E fd \in 3..(OPEN_MAX - 1) : p.fileTable[fd] = NULL
    THEN CHOOSE fd \in 3..(OPEN_MAX - 1) : p.fileTable[fd] = NULL
                               /\ \A g \in 3..(fd - 1) : p.fileTable[g] # NULL
    ELSE OPEN_MAX

(* lock_create: a lock structure no open-file entry and no thread refers   *)
(* to, NULL when the kernel heap has none left                              *)
FileLocks == {FileLock(j) : j \in 1..NFileLocks}
LockInUse(l) ==
    \/ \E f \in OfIds : openfiles[f].lock = l
    \/ \E u \in ProcObjs : threads[u].lk = l
    \/ locks[l].lk_owner # NULL \/ locks[l].lk_wchan # <<>>
lock_create ==
    IF \E l \in FileLocks : ~LockInUse(l)
    THEN CHOOSE l \in FileLocks : ~LockInUse(l) /\ \A m \in FileLocks : m < l => LockInUse(m)
    ELSE NULL

(* copyinstr, vfs_open, then the scan of the system table for a free       *)
(* entry; serial numbers the call (no two calls of a behaviour start with  *)
(* the same budget)                                                         *)
sys_open_SHELL(t, path, openflags) ==
    /\ Trap(t)
    /\ budget' = budget - 1
    /\ LET th == [Enter(t, "open", <<path, openflags, 0>>, "op_claim")
                    EXCEPT !.serial = budget]
           r == vfs_open(path, openflags)
       IN  threads' = [threads EXCEPT ![t] =
              IF r.err # "OK" THEN Ret(th, r.err, NOVAL)
              ELSE [th EXCEPT !.v = r.v, !.of = FreeSlot(openfiles)]]
    /\ UNCHANGED <<processTable, procs, cvs, locks, openfiles, panicked, filesize>>

(* of->vn = v; then the first free descriptor from 3 on is pointed at the  *)
(* entry, and EMFILE is returned when that descriptor is OPEN_MAX - 1.     *)
(* When no descriptor is free the code goes on with fileTable[OPEN_MAX],    *)
(* an access past the end of the array: the kernel faults, or memory the   *)
(* model does not hold is overwritten and the call returns OPEN_MAX.       *)
open_claim(t) ==
    /\ At(t, "op_claim")
    /\ LET th == threads[t]
           me == curproc(t)
           fd == FreeFd(procs[me])
       IN  IF th.of = NULL
           THEN /\ threads' = [threads EXCEPT ![t] = Ret(th, "ENFILE", NOVAL)]
                /\ UNCHANGED <<openfiles, procs, panicked>>
           ELSE /\ openfiles' = [openfiles EXCEPT ![th.of].vn = th.v]
                /\ IF fd = OPEN_MAX
                   THEN /\ UNCHANGED procs
                        /\ \/ Panic /\ UNCHANGED threads
                           \/ /\ threads' = [threads EXCEPT ![t] = Ret(th, "OK", OPEN_MAX)]
                              /\ UNCHANGED panicked
                   ELSE /\ procs' = [procs EXCEPT ![me].fileTable[fd] = th.of,
                                                   ![me].origin[fd] = th.serial,
                                                   ![me].opened[fd] =
                                                       th.args[2] % (O_ACCMODE + 1)]
                        /\ threads' = [threads EXCEPT ![t] =
                              IF fd = OPEN_MAX - 1 THEN Ret(th, "EMFILE", NOVAL)
                              ELSE [th EXCEPT !.index = fd, !.pc = "op_init"]]
                        /\ UNCHANGED panicked
    /\ UNCHANGED <<processTable, cvs, locks, budget, filesize>>

(* the offset, count_refs = 1, the mode and the lock of the new entry, all *)
(* through curproc->fileTable[fd]; *retval = fd                            *)
open_init(t) ==
    /\ At(t, "op_init")
    /\ LET th == threads[t]
           me == curproc(t)
           fd == th.index
           of == procs[me].fileTable[fd]
           openflags == th.args[2]
           off == IF (openflags \div O_APPEND) % 2 = 1
                  THEN VOP_STAT(openfiles[of].vn) ELSE 0
           l == lock_create
           of1 == [openfiles[of] EXCEPT !.offset = off, !.count_refs = 1]
           of2 == [of1 EXCEPT !.mode_open = openflags % (O_ACCMODE + 1), !.lock = l]
       IN  IF of = NULL
           THEN Panic /\ UNCHANGED <<openfiles, procs, threads, locks>>
           ELSE IF openflags % (O_ACCMODE + 1) = O_ACCMODE
           THEN /\ openfiles' = [openfiles EXCEPT ![of] = of1]
                /\ procs' = [procs EXCEPT ![me].fileTable[fd] = NULL]
                /\ threads' = [threads EXCEPT ![t] = Ret(th, "EINVAL", NOVAL)]
                /\ UNCHANGED <<locks, panicked>>
           ELSE IF l = NULL
           THEN /\ openfiles' = [openfiles EXCEPT ![of] = of2]
                /\ procs' = [procs EXCEPT ![me].fileTable[fd] = NULL]
                /\ threads' = [threads EXCEPT ![t] = Ret(th, "ENOMEM", NOVAL)]
                /\ UNCHANGED <<locks, panicked>>
           ELSE /\ openfiles' = [openfiles EXCEPT ![of] = of2]
                /\ locks' = [locks EXCEPT ![l] = FreeLock]
                /\ threads' = [threads EXCEPT ![t] = Ret(th, "OK", fd)]
                /\ UNCHANGED <<procs, panicked>>
    /\ UNCHANGED <<processTable, cvs, budget, filesize>>

(***************************************************************************)
(* syscall_FILE.c: sys_close_SHELL                                         *)
(***************************************************************************)
BadFd(p, fd) == fd < 0 \/ fd >= OPEN_MAX \/ p.fileTable[fd] = NULL

(* the descriptor checks; then lock_acquire(of->lock) is next *)
sys_close_SHELL(t, fd) ==
    /\ Trap(t)
    /\ budget' = budget - 1
    /\ LET th == Enter(t, "close", <<fd, 0, 0>>, "lock_acquire")
           me == procs[curproc(t)]
       IN  threads' = [threads EXCEPT ![t] =
              IF BadFd(me, fd) THEN Ret(th, "EBADF", NOVAL)
              ELSE [th EXCEPT !.of = me.fileTable[fd], !.index = fd,
                              !.lk = openfiles[me.fileTable[fd]].lock,
                              !.cont = "cl_refs"]]
    /\ UNCHANGED <<processTable, procs, cvs, locks, openfiles, panicked, filesize>>

(* count_refs is an unsigned int: it is held as the signed value of the    *)
(* same 32 bits, so that 0 - 1 is -1 (0xffffffff) and "> 0" is "not 0"      *)
DecRefs(of) == [of EXCEPT !.count_refs = @ - 1]

(* the slot is left as it is *)
close_refs_keep(t) ==
    /\ At(t, "cl_refs")
    /\ LET th == threads[t]
           of1 == DecRefs(openfiles[th.of])
       IN  /\ openfiles' = [openfiles EXCEPT ![th.of] =
                 IF of1.count_refs # 0 THEN of1 ELSE [of1 EXCEPT !.vn = NULL]]
           /\ threads' = [threads EXCEPT ![t].pc = "cl_release"]
    /\ UNCHANGED <<processTable, procs, cvs, locks, panicked, budget, filesize>>

(* curproc->fileTable[fd] = NULL; --of->count_refs; with no reference left *)
(* of->vn = NULL and vfs_close(vn)                                          *)
close_refs(t) ==
    /\ At(t, "cl_refs")
    /\ LET th == threads[t]
           of1 == DecRefs(openfiles[th.of])
       IN  /\ procs' = [procs EXCEPT ![curproc(t)].fileTable[th.index] = NULL]
           /\ openfiles' = [openfiles EXCEPT ![th.of] =
                 IF of1.count_refs # 0 THEN of1 ELSE [of1 EXCEPT !.vn = NULL]]
           /\ threads' = [threads EXCEPT ![t].pc = "cl_release"]
    /\ UNCHANGED <<processTable, cvs, locks, panicked, budget, filesize>>

(* lock_release(of->lock); return 0 *)
close_release(t) ==
    /\ At(t, "cl_release")
    /\ LET th == threads[t]
           l == openfiles[th.of].lock
           w == WakeLock(locks, threads, l)
       IN  IF l = NULL \/ locks[l].lk_owner # t
           THEN Panic /\ UNCHANGED <<locks, threads>>
           ELSE /\ locks' = w.locks
                /\ threads' = [w.threads EXCEPT ![t] = Ret(th, "OK", NOVAL)]
                /\ UNCHANGED panicked
    /\ UNCHANGED <<processTable, procs, cvs, openfiles, budget, filesize>>

(***************************************************************************)
(* syscall_FILE.c: sys_dup2_SHELL                                          *)
(***************************************************************************)
(* the descriptor checks; then either the close of newfd or the reference  *)
(* to oldfd starts with a lock_acquire(of->lock)                            *)
sys_dup2_SHELL(t, oldfd, newfd) ==
    /\ Trap(t)
    /\ budget' = budget - 1
    /\ LET th == Enter(t, "dup2", <<oldfd, newfd, 0>>, "lock_acquire")
           me == procs[curproc(t)]
       IN  threads' = [threads EXCEPT ![t] =
              IF oldfd < 0 \/ oldfd >= OPEN_MAX \/ newfd < 0 \/ newfd >= OPEN_MAX
              THEN Ret(th, "EBADF", NOVAL)
              ELSE IF me.fileTable[oldfd] = NULL THEN Ret(th, "EBADF", NOVAL)
              ELSE IF oldfd = newfd THEN Ret(th, "OK", NOVAL)
              ELSE IF me.fileTable[newfd] # NULL
              THEN [th EXCEPT !.of = me.fileTable[newfd],
                              !.lk = openfiles[me.fileTable[newfd]].lock,
                              !.cont = "dup2_close"]
              ELSE [th EXCEPT !.of = me.fileTable[oldfd],
                              !.lk = openfiles[me.fileTable[oldfd]].lock,
                              !.cont = "dup2_refs"]]
    /\ UNCHANGED <<processTable, procs, cvs, locks, openfiles, panicked, filesize>>

(* newfd is open: its slot is cleared and the entry loses a reference;     *)
(* then of = NULL and lock_release(of->lock) reads through the null        *)
(* pointer, a fatal kernel fault                                            *)
dup2_close(t) ==
    /\ At(t, "dup2_close")
    /\ LET th == threads[t]
           of1 == DecRefs(openfiles[th.of])
       IN  /\ procs' = [procs EXCEPT ![curproc(t)].fileTable[th.args[2]] = NULL]
           /\ openfiles' = [openfiles EXCEPT ![th.of] =
                 IF of1.count_refs = 0 THEN [of1 EXCEPT !.vn = NULL] ELSE of1]
    /\ Panic
    /\ UNCHANGED <<processTable, cvs, locks, threads, budget, filesize>>

(* of->count_refs++ under the entry's lock *)
dup2_refs(t) ==
    /\ At(t, "dup2_refs")
    /\ openfiles' = [openfiles EXCEPT ![threads[t].of].count_refs = @ + 1]
    /\ threads' = [threads EXCEPT ![t].pc = "dup2_release"]
    /\ UNCHANGED <<processTable, procs, cvs, locks, panicked, budget, filesize>>

(* lock_release(of->lock); curproc->fileTable[newfd] = of; *retval = newfd *)
dup2_release(t) ==
    /\ At(t, "dup2_release")
    /\ LET th == threads[t]
           l == openfiles[th.of].lock
           w == WakeLock(locks, threads, l)
       IN  IF l = NULL \/ locks[l].lk_owner # t
           THEN Panic /\ UNCHANGED <<locks, threads, procs>>
           ELSE /\ locks' = w.locks
                /\ procs' = [procs EXCEPT
                      ![curproc(t)].fileTable[th.args[2]] = th.of,
                      ![curproc(t)].origin[th.args[2]] =
                          procs[curproc(t)].origin[th.args[1]],
                      ![curproc(t)].opened[th.args[2]] =
                          procs[curproc(t)].opened[th.args[1]]]
                /\ threads' = [w.threads EXCEPT ![t] = Ret(th, "OK", th.args[2])]
                /\ UNCHANGED panicked
    /\ UNCHANGED <<processTable, cvs, openfiles, budget, filesize>>

(***************************************************************************)
(* syscall_FILE.c: sys_write_SHELL                                         *)
(***************************************************************************)
(* the descriptor checks and the copy of the buffer; of and vn are read;   *)
(* then lock_acquire(of->lock) is next                                      *)
sys_write_SHELL(t, fd, buflen) ==
    /\ Trap(t)
    /\ budget' = budget - 1
    /\ LET th == Enter(t, "write", <<fd, buflen, 0>>, "lock_acquire")
           me == procs[curproc(t)]
           of == me.fileTable[fd]
       IN  /\ ~BadFd(me, fd) => openfiles[of].offset + buflen <= MaxOffset
           /\ threads' = [threads EXCEPT ![t] =
                 IF BadFd(me, fd) THEN Ret(th, "EBADF", NOVAL)
                 ELSE IF openfiles[of].mode_open = O_RDONLY THEN Ret(th, "EBADF", NOVAL)
                 ELSE [th EXCEPT !.of = of, !.v = openfiles[of].vn,
                                 !.lk = openfiles[of].lock, !.cont = "wr_kinit"]]
    /\ UNCHANGED <<processTable, procs, cvs, locks, openfiles, panicked, filesize>>

(* uio_kinit(..., of->offset, UIO_WRITE): the transfer starts at the       *)
(* offset read here                                                         *)
write_kinit(t) ==
    /\ At(t, "wr_kinit")
    /\ threads' = [threads EXCEPT ![t].koff = openfiles[threads[t].of].offset,
                                  ![t].pc = "wr_vop"]
    /\ UNCHANGED <<processTable, procs, cvs, locks, openfiles, panicked, budget, filesize>>

(* VOP_WRITE(vn, &kuio): buflen bytes go to the file at uio_offset; then   *)
(* nbytes = kuio.uio_offset - of->offset and of->offset = kuio.uio_offset. *)
(* When VOP_WRITE fails the function returns the error at once.            *)
write_vop(t, error) ==
    /\ At(t, "wr_vop")
    /\ LET th == threads[t]
           uio_offset == th.koff + th.args[2]
       IN  IF th.v = NULL THEN Panic /\ UNCHANGED <<threads, openfiles, filesize>>
           ELSE IF error
           THEN /\ threads' = [threads EXCEPT ![t] = Ret(th, "EIO", NOVAL)]
                /\ UNCHANGED <<openfiles, filesize, panicked>>
           ELSE /\ filesize' = IF th.v = VN_FILE /\ uio_offset > filesize
                               THEN uio_offset ELSE filesize
                /\ openfiles' = [openfiles EXCEPT ![th.of].offset = uio_offset]
                /\ threads' = [threads EXCEPT ![t] =
                      [th EXCEPT !.retval = uio_offset - openfiles[th.of].offset,
                                 !.pc = "wr_release"]]
                /\ UNCHANGED panicked
    /\ UNCHANGED <<processTable, procs, cvs, locks, budget>>

(* lock_release(of->lock); return 0 *)
write_release(t) ==
    /\ At(t, "wr_release")
    /\ LET th == threads[t]
           l == openfiles[th.of].lock
           w == WakeLock(locks, threads, l)
       IN  IF l = NULL \/ locks[l].lk_owner # t
           THEN Panic /\ UNCHANGED <<locks, threads>>
           ELSE /\ locks' = w.locks
                /\ threads' = [w.threads EXCEPT ![t] = Ret(th, "OK", th.retval)]
                /\ UNCHANGED panicked
    /\ UNCHANGED <<processTable, procs, cvs, openfiles, budget, filesize>>

(***************************************************************************)
(* syscall_FILE.c: sys_read_SHELL                                          *)
(***************************************************************************)
(* the descriptor checks and the kernel buffer; of and vn are read; then   *)
(* lock_acquire(of->lock) is next                                           *)
sys_read_SHELL(t, fd, buflen) ==
    /\ Trap(t)
    /\ budget' = budget - 1
    /\ LET th == Enter(t, "read", <<fd, buflen, 0>>, "lock_acquire")
           me == procs[curproc(t)]
           of == me.fileTable[fd]
       IN  /\ ~BadFd(me, fd) => openfiles[of].offset + buflen <= MaxOffset
           /\ threads' = [threads EXCEPT ![t] =
                 IF BadFd(me, fd) THEN Ret(th, "EBADF", NOVAL)
                 ELSE IF openfiles[of].mode_open = O_WRONLY THEN Ret(th, "EBADF", NOVAL)
                 ELSE [th EXCEPT !.of = of, !.v = openfiles[of].vn,
                                 !.lk = openfiles[of].lock, !.cont = "rd_kinit"]]
    /\ UNCHANGED <<processTable, procs, cvs, locks, openfiles, panicked, filesize>>

(* uio_kinit(..., of->offset, UIO_READ) *)
read_kinit(t) ==
    /\ At(t, "rd_kinit")
    /\ threads' = [threads EXCEPT ![t].koff = openfiles[threads[t].of].offset,
                                  ![t].pc = "rd_vop"]
    /\ UNCHANGED <<processTable, procs, cvs, locks, openfiles, panicked, budget, filesize>>

(* VOP_READ(vn, &kuio): the console delivers buflen bytes, a file the      *)
(* bytes between uio_offset and its end; then of->offset = kuio.uio_offset *)
(* and *retval = buflen - kuio.uio_resid.  When VOP_READ fails the         *)
(* function returns the error at once.                                      *)
read_vop(t, error) ==
    /\ At(t, "rd_vop")
    /\ LET th == threads[t]
           left == IF filesize > th.koff THEN filesize - th.koff ELSE 0
           n == IF th.v = VN_FILE /\ left < th.args[2] THEN left ELSE th.args[2]
       IN  IF th.v = NULL THEN Panic /\ UNCHANGED <<threads, openfiles>>
           ELSE IF error
           THEN /\ threads' = [threads EXCEPT ![t] = Ret(th, "EIO", NOVAL)]
                /\ UNCHANGED <<openfiles, panicked>>
           ELSE /\ openfiles' = [openfiles EXCEPT ![th.of].offset = th.koff + n]
                /\ threads' = [threads EXCEPT ![t] =
                      [th EXCEPT !.retval = n, !.pc = "rd_release"]]
                /\ UNCHANGED panicked
    /\ UNCHANGED <<processTable, procs, cvs, locks, budget, filesize>>

(* copyout(kbuffer, buf, *retval), which returns EFAULT at once when buf   *)
(* is no valid user address; then lock_release(of->lock); return 0         *)
read_release(t, fault) ==
    /\ At(t, "rd_release")
    /\ LET th == threads[t]
           l == openfiles[th.of].lock
           w == WakeLock(locks, threads, l)
       IN  IF fault
           THEN /\ threads' = [threads EXCEPT ![t] = Ret(th, "EFAULT", th.retval)]
                /\ UNCHANGED <<locks, panicked>>
           ELSE IF l = NULL \/ locks[l].lk_owner # t
           THEN Panic /\ UNCHANGED <<locks, threads>>
           ELSE /\ locks' = w.locks
                /\ threads' = [w.threads EXCEPT ![t] = Ret(th, "OK", th.retval)]
                /\ UNCHANGED panicked
    /\ UNCHANGED <<processTable, procs, cvs, openfiles, budget, filesize>>

(***************************************************************************)
(* syscall_PROC.c: sys_execv_SHELL                                         *)
(***************************************************************************)
ARG_MAX == 65536       \* kern/limits.h
VN_PROG == 4           \* the vnode of an executable (ELF) file
ARGV_GOOD == 4096      \* a user vector of short strings
ARGV_KSTR == 8192      \* a user vector whose argv[0] points into kernel memory
ARGV_LONG == 12288     \* a user vector whose argv[0] is a string of 17 characters

(* load_elf: a file that is not an ELF executable is refused *)
load_elf(v) == IF v = VN_PROG THEN "OK" ELSE "ENOEXEC"

(* the pathname copy, the argument count and the argument copy.  nomem     *)
(* tells which kmalloc fails (1: kpathname, 2: kargv or kargv[i]).  argv    *)
(* and argv[i] are read by the kernel directly: a NULL argv is a fatal      *)
(* fault, a kernel address in argv[i] is read by strlen and refused by      *)
(* copyinstr.  kargv[i] has strlen(argv[i]+1) bytes and copyinstr writes    *)
(* strlen(argv[i])+1: with 17 characters the 16-byte block is overrun by    *)
(* two bytes, which either goes unnoticed or brings the kernel down (smash) *)
sys_execv_SHELL(t, pathname, argv, args, nomem, smash) ==
    /\ Trap(t)
    /\ budget' = budget - 1
    /\ LET th == Enter(t, "execv", <<pathname, argv, args>>, "ex_open")
           err == IF pathname = NULL THEN "EFAULT"
                  ELSE IF nomem = 1 THEN "ENOMEM"
                  ELSE IF pathname \in {INVAL_PTR, KERN_PTR} THEN "EFAULT"
                  ELSE IF argv = NULL THEN "FAULT"
                  ELSE IF args >= ARG_MAX THEN "E2BIG"
                  ELSE IF nomem = 2 THEN "ENOMEM"
                  ELSE IF argv = ARGV_KSTR THEN "EFAULT"
                  ELSE IF argv = ARGV_LONG /\ smash THEN "FAULT"
                  ELSE "OK"
       IN  IF err = "FAULT" THEN Panic /\ UNCHANGED threads
           ELSE /\ threads' = [threads EXCEPT ![t] =
                      IF err = "OK" THEN th ELSE Ret(th, err, NOVAL)]
                /\ UNCHANGED panicked
    /\ UNCHANGED <<processTable, procs, cvs, locks, openfiles, filesize>>

(* the executable stays open when as_create fails *)
execv_open_leak(t, nomem) ==
    /\ At(t, "ex_open")
    /\ LET th == threads[t]
           me == curproc(t)
           r == vfs_open(th.args[1], O_RDONLY)
           newas == procs[me].p_addrspace + 1
       IN  IF r.err # "OK"
           THEN /\ threads' = [threads EXCEPT ![t] = Ret(th, r.err, NOVAL)]
                /\ UNCHANGED procs
           ELSE IF nomem
           THEN /\ threads' = [threads EXCEPT ![t] = Ret(th, "ENOMEM", NOVAL)]
                /\ procs' = [procs EXCEPT ![me].execvn = @ + 1]
           ELSE /\ threads' = [threads EXCEPT ![t] = [th EXCEPT !.pc = "ex_load", !.v = r.v]]
                /\ procs' = [procs EXCEPT
                      ![me].execvn = @ + 1,
                      ![me].as_destroyed = @ \cup {procs[me].p_addrspace},
                      ![me].p_addrspace = newas]
    /\ UNCHANGED <<processTable, cvs, locks, openfiles, panicked, budget, filesize>>

(* vfs_open(kpathname, O_RDONLY, 0, &vn); newas = as_create(), upon whose   *)
(* failure (nomem) the vnode is closed; oldas = proc_setas(newas);          *)
(* as_destroy(oldas); as_activate()                                         *)
execv_open(t, nomem) ==
    /\ At(t, "ex_open")
    /\ LET th == threads[t]
           me == curproc(t)
           r == vfs_open(th.args[1], O_RDONLY)
           newas == procs[me].p_addrspace + 1
       IN  IF r.err # "OK"
           THEN /\ threads' = [threads EXCEPT ![t] = Ret(th, r.err, NOVAL)]
                /\ UNCHANGED procs
           ELSE IF nomem
           THEN /\ threads' = [threads EXCEPT ![t] = Ret(th, "ENOMEM", NOVAL)]
                /\ UNCHANGED procs
           ELSE /\ threads' = [threads EXCEPT ![t] = [th EXCEPT !.pc = "ex_load", !.v = r.v]]
                /\ procs' = [procs EXCEPT
                      ![me].execvn = @ + 1,
                      ![me].as_destroyed = @ \cup {procs[me].p_addrspace},
                      ![me].p_addrspace = newas]
    /\ UNCHANGED <<processTable, cvs, locks, openfiles, panicked, budget, filesize>>

(* the descriptors of the caller are closed on the way to the new program *)
execv_load_cloexec(t, fail) ==
    /\ At(t, "ex_load")
    /\ LET th == threads[t]
           me == curproc(t)
           err == load_elf(th.v)
       IN  /\ procs' = [procs EXCEPT ![me].execvn = @ - 1,
                                     ![me].fileTable = [fd \in Fds |-> NULL]]
           /\ threads' = [threads EXCEPT ![t] =
                 IF err # "OK" THEN Ret(th, err, NOVAL)
                 ELSE IF fail # "OK" THEN Ret(th, fail, NOVAL)
                 ELSE UserThread(me)]
    /\ UNCHANGED <<processTable, cvs, locks, openfiles, panicked, budget, filesize>>

(* load_elf(vn, &entrypoint), vfs_close(vn) on either outcome;              *)
(* as_define_stack and the copyout of each argument, whose failure is fail; *)
(* each error is returned to the caller; enter_new_process otherwise: the   *)
(* thread is in user mode in the new program                                *)
execv_load(t, fail) ==
    /\ At(t, "ex_load")
    /\ LET th == threads[t]
           me == curproc(t)
           err == load_elf(th.v)
       IN  /\ procs' = [procs EXCEPT ![me].execvn = @ - 1]
           /\ threads' = [threads EXCEPT ![t] =
                 IF err # "OK" THEN Ret(th, err, NOVAL)
                 ELSE IF fail # "OK" THEN Ret(th, fail, NOVAL)
                 ELSE UserThread(me)]
    /\ UNCHANGED <<processTable, cvs, locks, openfiles, panicked, budget, filesize>>

(***************************************************************************)
(* kern/thread/synch.c called by kernel threads on one lock and one        *)
(* condition variable: the pair p_locklock, p_cv of the first process.      *)
(* A thread is at "k_idle" outside the primitives and at "k_held" between   *)
(* the return of lock_acquire (or cv_wait) and its next call.               *)
(***************************************************************************)
SynchLock == ProcLock(1)
SynchCv == 1

SynchThread ==
    [NoThread EXCEPT !.pc = "k_idle", !.t_proc = KPROC, !.proc = SynchCv,
                     !.lk = SynchLock, !.cont = "k_held"]

(* a thread calls lock_acquire(lock) *)
synch_lock_acquire(t) ==
    /\ At(t, "k_idle")
    /\ threads' = [threads EXCEPT ![t] =
          [threads[t] EXCEPT !.pc = "lock_acquire", !.call = "lock_acquire"]]
    /\ UNCHANGED <<processTable, procs, cvs, locks, openfiles, panicked, budget, filesize>>

(* lock_release(lock): KASSERT(lock_do_i_hold(lock)), the owner is cleared  *)
(* and one thread asleep on the lock's channel is woken                     *)
lock_release(t) ==
    /\ At(t, "k_held")
    /\ LET w == WakeLock(locks, threads, threads[t].lk)
       IN  IF locks[threads[t].lk].lk_owner # t
           THEN Panic /\ UNCHANGED <<locks, threads>>
           ELSE /\ locks' = w.locks
                /\ threads' = [w.threads EXCEPT ![t].pc = "k_idle", ![t].call = ""]
                /\ UNCHANGED panicked
    /\ UNCHANGED <<processTable, procs, cvs, openfiles, budget, filesize>>

(* the lock is released and the thread is put on the channel only later *)
synch_cv_wait_late(t) ==
    /\ At(t, "k_held")
    /\ LET w == WakeLock(locks, threads, threads[t].lk)
       IN  /\ locks' = w.locks
           /\ threads' = [w.threads EXCEPT ![t].pc = "cv_sleep", ![t].call = "cv_wait"]
    /\ UNCHANGED <<processTable, procs, cvs, openfiles, panicked, budget, filesize>>

(* cv_wait(cv, lock), first half: KASSERT(lock_do_i_hold(lock)); with the   *)
(* cv's spinlock held, lock_release(lock) and wchan_sleep on the cv's       *)
(* channel.  The second half is lock_acquire(lock), taken when woken.       *)
synch_cv_wait(t) ==
    /\ At(t, "k_held")
    /\ LET th == threads[t]
           w == WakeLock(locks, threads, th.lk)
       IN  IF locks[th.lk].lk_owner # t
           THEN Panic /\ UNCHANGED <<locks, threads, cvs>>
           ELSE /\ locks' = w.locks
                /\ threads' = [w.threads EXCEPT ![t].pc = "cv_sleep", ![t].call = "cv_wait"]
                /\ cvs' = [cvs EXCEPT ![th.proc] = Append(@, t)]
                /\ UNCHANGED panicked
    /\ UNCHANGED <<processTable, procs, openfiles, budget, filesize>>

(* cv_signal(cv, lock): KASSERT(lock_do_i_hold(lock)); wchan_wakeone on the *)
(* cv's channel: the first thread asleep, if there is one, goes on to       *)
(* lock_acquire(lock); nothing is recorded in the cv                         *)
synch_cv_signal(t) ==
    /\ At(t, "k_held")
    /\ LET th == threads[t]
           q == cvs[th.proc]
       IN  IF locks[th.lk].lk_owner # t
           THEN Panic /\ UNCHANGED <<threads, cvs>>
           ELSE /\ cvs' = [cvs EXCEPT ![th.proc] = IF q = <<>> THEN q ELSE Tail(q)]
                /\ threads' = [x \in ProcObjs |->
                      IF x = t THEN [th EXCEPT !.call = "cv_signal"]
                      ELSE IF q # <<>> /\ x = Head(q)
                      THEN [threads[x] EXCEPT !.pc = "lock_acquire"]
                      ELSE threads[x]]
                /\ UNCHANGED panicked
    /\ UNCHANGED <<processTable, procs, locks, openfiles, budget, filesize>>

(* cv_broadcast(cv, lock): KASSERT(lock_do_i_hold(lock)); wchan_wakeall:    *)
(* every thread asleep on the channel goes on to lock_acquire(lock)         *)
cv_broadcast(t) ==
    /\ At(t, "k_held")
    /\ LET th == threads[t]
           q == cvs[th.proc]
       IN  IF locks[th.lk].lk_owner # t
           THEN Panic /\ UNCHANGED <<threads, cvs>>
           ELSE /\ cvs' = [cvs EXCEPT ![th.proc] = <<>>]
                /\ threads' = [x \in ProcObjs |->
                      IF x = t THEN [th EXCEPT !.call = "cv_broadcast"]
                      ELSE IF \E i \in 1..Len(q) : q[i] = x
                      THEN [threads[x] EXCEPT !.pc = "lock_acquire"]
                      ELSE threads[x]]
                /\ UNCHANGED panicked
    /\ UNCHANGED <<processTable, procs, locks, openfiles, budget, filesize>>

(***************************************************************************)
(* Return to user mode.                                                    *)
(***************************************************************************)
syscall_return(t) ==
    /\ At(t, "ret")
    /\ threads' = [threads EXCEPT ![t] = UserThread(threads[t].t_proc)]
    /\ UNCHANGED <<processTable, procs, cvs, locks, openfiles, panicked, budget, filesize>>

(***************************************************************************)
(* Inputs of the system calls.                                             *)
(***************************************************************************)
WaitPids == (1..PROC_MAX) \cup {9999}
StatusPtrs == {NULL, 4096, 4098, INVAL_PTR, KERN_PTR}
WaitOptions == {0, WNOHANG, 2}
ExitCodes == {0, 3, 259}
Paths == {VN_FILE, PATH_NONE}
OpenFlags == {O_RDONLY, O_WRONLY, O_WRONLY + O_APPEND}
CloseFds == {-1, 1, 3, 4, OPEN_MAX}
OldFds == {-1, 1, 3}
NewFds == {3, 4, OPEN_MAX}
WriteFds == {-1, 0, 1, 3, 4, OPEN_MAX}
BufLens == {1, 2}
ReadFds == {-1, 0, 1, 3, OPEN_MAX}

ExecPaths == {NULL, INVAL_PTR, VN_PROG, VN_FILE, PATH_NONE}
ExecArgvs == {NULL, ARGV_GOOD, ARGV_KSTR, ARGV_LONG}
ExecArgs == {1, ARG_MAX}
ExecFails == {"OK", "ENOMEM", "EFAULT"}

ForkFails == {"proc", "sync", "console", "as_copy", "tf", "child"}

(* the steps inside the system calls of syscall_PROC.c, and the return *)
ProcStep(t) ==
    \/ waitpid_search(t)
    \/ waitpid_numthreads(t)
    \/ cv_wait(t)
    \/ waitpid_release(t)
    \/ waitpid_status(t)
    \/ waitpid_destroy(t)
    \/ proc_remthread(t)
    \/ cv_signal(t)
    \/ exit_release(t)
    \/ fork_create(t)
    \/ fork_proc_add(t)
    \/ fork_thread(t)
    \/ lock_acquire(t)
    \/ lock_use_after_free(t)
    \/ syscall_return(t)

(* the system calls of syscall_FILE.c and the steps inside them *)
FileStep(t) ==
    \/ \E path \in Paths, openflags \in OpenFlags : sys_open_SHELL(t, path, openflags)
    \/ open_claim(t)
    \/ open_init(t)
    \/ \E fd \in CloseFds : sys_close_SHELL(t, fd)
    \/ close_refs(t)
    \/ close_release(t)
    \/ \E oldfd \in OldFds, newfd \in NewFds : sys_dup2_SHELL(t, oldfd, newfd)
    \/ dup2_close(t)
    \/ dup2_refs(t)
    \/ dup2_release(t)
    \/ \E fd \in WriteFds, buflen \in BufLens : sys_write_SHELL(t, fd, buflen)
    \/ write_kinit(t)
    \/ \E error \in BOOLEAN : write_vop(t, error)
    \/ write_release(t)
    \/ \E fd \in ReadFds : sys_read_SHELL(t, fd, 1)
    \/ read_kinit(t)
    \/ \E error \in BOOLEAN : read_vop(t, error)
    \/ \E fault \in BOOLEAN : read_release(t, fault)

(* the process life cycle, under preemptive scheduling, with every         *)
(* combination of waitpid arguments                                         *)
Next ==
    \E t \in ProcObjs :
        \/ \E pid \in WaitPids, status \in StatusPtrs, options \in WaitOptions :
              sys_waitpid_SHELL(t, pid, status, options)
        \/ \E exitcode \in ExitCodes : sys_exit_SHELL(t, exitcode)
        \/ sys_fork_SHELL(t)
        \/ ProcStep(t)

Spec == Init /\ [][Next]_vars

(* all system calls of the model, starting from the first user process *)
InitFile ==
    /\ processTable =
          [proc |-> [i \in Pids |-> IF i = 0 THEN KPROC ELSE IF i = 1 THEN 1 ELSE NULL],
           last_pid |-> 1]
    /\ procs = [o \in ProcObjs |->
          IF o = 1 THEN [proc_create_runprogram(1, 1) EXCEPT !.p_numthreads = 1]
          ELSE FreeProc]
    /\ cvs = [o \in ProcObjs |-> <<>>]
    /\ locks = [l \in LockIds |-> FreeLock]
    /\ openfiles = ConsoleFiles([f \in OfIds |-> NoFile], 1)
    /\ threads = [o \in ProcObjs |-> IF o = 1 THEN UserThread(1) ELSE NoThread]
    /\ panicked = FALSE
    /\ budget = MaxFileCalls
    /\ filesize = 0

NextFile ==
    \E t \in ProcObjs :
        \/ \E pid \in 1..PROC_MAX : sys_waitpid_SHELL(t, pid, 4096, 0)
        \/ sys_exit_SHELL(t, 3)
        \/ sys_fork_SHELL(t)
        \/ ProcStep(t)
        \/ FileStep(t)

SpecFile == InitFile /\ [][NextFile]_vars

(* the file system calls of two processes running side by side: process 1  *)
(* has forked process 2 and both are back in user mode                      *)
ForkedProcs ==
    [o \in ProcObjs |->
        IF o = 1 THEN [proc_create_runprogram(1, 1) EXCEPT
                          !.p_numthreads = 1, !.children_list = <<2>>]
        ELSE IF o = 2 THEN [proc_create_runprogram(2, 2) EXCEPT
                          !.p_numthreads = 1, !.parent_pid = 1]
        ELSE FreeProc]

InitRace ==
    /\ processTable =
          [proc |-> [i \in Pids |-> IF i = 0 THEN KPROC ELSE IF i \in {1, 2} THEN i ELSE NULL],
           last_pid |-> 2]
    /\ procs = ForkedProcs
    /\ cvs = [o \in ProcObjs |-> <<>>]
    /\ locks = [l \in LockIds |-> FreeLock]
    /\ openfiles = ConsoleFiles(ConsoleFiles([f \in OfIds |-> NoFile], 1), 2)
    /\ threads = [o \in ProcObjs |-> IF o \in {1, 2} THEN UserThread(o) ELSE NoThread]
    /\ panicked = FALSE
    /\ budget = MaxRaceCalls
    /\ filesize = 0

NextRace ==
    \E t \in ProcObjs :
        \/ \E openflags \in {O_RDONLY, O_WRONLY} : sys_open_SHELL(t, VN_FILE, openflags)
        \/ open_claim(t)
        \/ open_init(t)
        \/ sys_close_SHELL(t, 3)
        \/ close_refs(t)
        \/ close_release(t)
        \/ \E buflen \in BufLens : sys_write_SHELL(t, 3, buflen)
        \/ write_kinit(t)
        \/ \E error \in BOOLEAN : write_vop(t, error)
        \/ write_release(t)
        \/ lock_acquire(t)
        \/ syscall_return(t)

SpecRace == InitRace /\ [][NextRace]_vars

(* fork, _exit and waitpid of several processes running side by side, from *)
(* the state where process 1 has forked process 2 and both are back in     *)
(* user mode                                                                *)
InitPid ==
    /\ processTable =
          [proc |-> [i \in Pids |-> IF i = 0 THEN KPROC ELSE IF i \in {1, 2} THEN i ELSE NULL],
           last_pid |-> 2]
    /\ procs = ForkedProcs
    /\ cvs = [o \in ProcObjs |-> <<>>]
    /\ locks = [l \in LockIds |-> FreeLock]
    /\ openfiles = ConsoleFiles(ConsoleFiles([f \in OfIds |-> NoFile], 1), 2)
    /\ threads = [o \in ProcObjs |-> IF o \in {1, 2} THEN UserThread(o) ELSE NoThread]
    /\ panicked = FALSE
    /\ budget = MaxPidCalls
    /\ filesize = 0

NextPid ==
    \E t \in ProcObjs :
        \/ \E pid \in 1..PROC_MAX : sys_waitpid_SHELL(t, pid, 4096, 0)
        \/ sys_exit_SHELL(t, 3)
        \/ sys_fork_SHELL(t)
        \/ ProcStep(t)

SpecPid == InitPid /\ [][NextPid]_vars

(* execv beside open and close, from the state where process 1 has forked *)
(* process 2 and both are back in user mode                                 *)
InitExec ==
    /\ processTable =
          [proc |-> [i \in Pids |-> IF i = 0 THEN KPROC ELSE IF i \in {1, 2} THEN i ELSE NULL],
           last_pid |-> 2]
    /\ procs = ForkedProcs
    /\ cvs = [o \in ProcObjs |-> <<>>]
    /\ locks = [l \in LockIds |-> FreeLock]
    /\ openfiles = ConsoleFiles(ConsoleFiles([f \in OfIds |-> NoFile], 1), 2)
    /\ threads = [o \in ProcObjs |-> IF o \in {1, 2} THEN UserThread(o) ELSE NoThread]
    /\ panicked = FALSE
    /\ budget = MaxExecCalls
    /\ filesize = 0

NextExec ==
    \E t \in ProcObjs :
        \/ \E pathname \in ExecPaths, argv \in ExecArgvs, args \in ExecArgs,
              nomem \in 0..2, smash \in BOOLEAN :
              sys_execv_SHELL(t, pathname, argv, args, nomem, smash)
        \/ \E nomem \in BOOLEAN : execv_open(t, nomem)
        \/ \E fail \in ExecFails : execv_load(t, fail)
        \/ sys_open_SHELL(t, VN_FILE, O_RDONLY)
        \/ open_claim(t)
        \/ open_init(t)
        \/ sys_close_SHELL(t, 3)
        \/ close_refs(t)
        \/ close_release(t)
        \/ lock_acquire(t)
        \/ syscall_return(t)

SpecExec == InitExec /\ [][NextExec]_vars

(* kernel threads that call the lock and condition variable primitives on  *)
(* one lock and one condition variable, in every order the KASSERTs allow   *)
InitSynch ==
    /\ processTable =
          [proc |-> [i \in Pids |-> IF i = 0 THEN KPROC ELSE IF i = 1 THEN 1 ELSE NULL],
           last_pid |-> 1]
    /\ procs = [o \in ProcObjs |->
          IF o = 1 THEN proc_create_runprogram(1, 1) ELSE FreeProc]
    /\ cvs = [o \in ProcObjs |-> <<>>]
    /\ locks = [l \in LockIds |-> FreeLock]
    /\ openfiles = ConsoleFiles([f \in OfIds |-> NoFile], 1)
    /\ threads = [o \in ProcObjs |-> SynchThread]
    /\ panicked = FALSE
    /\ budget = 0
    /\ filesize = 0

NextSynch ==
    \E t \in ProcObjs :
        \/ synch_lock_acquire(t)
        \/ lock_acquire(t)
        \/ lock_release(t)
        \/ synch_cv_wait(t)
        \/ synch_cv_signal(t)
        \/ cv_broadcast(t)

SpecSynch == InitSynch /\ [][NextSynch]_vars

(* the same under fair scheduling: a thread that is runnable inside         *)
(* lock_acquire is run in the end                                           *)
SpecSynchFair == SpecSynch /\ \A t \in ProcObjs : WF_vars(lock_acquire(t))

(* fork, _exit and waitpid with the allocations of fork free to fail *)
InitFork ==
    /\ processTable =
          [proc |-> [i \in Pids |-> IF i = 0 THEN KPROC ELSE IF i \in {1, 2} THEN i ELSE NULL],
           last_pid |-> 2]
    /\ procs = ForkedProcs
    /\ cvs = [o \in ProcObjs |-> <<>>]
    /\ locks = [l \in LockIds |-> FreeLock]
    /\ openfiles = ConsoleFiles(ConsoleFiles([f \in OfIds |-> NoFile], 1), 2)
    /\ threads = [o \in ProcObjs |-> IF o \in {1, 2} THEN UserThread(o) ELSE NoThread]
    /\ panicked = FALSE
    /\ budget = MaxForkCalls
    /\ filesize = 0

NextFork ==
    \E t \in ProcObjs :
        \/ \E pid \in 1..PROC_MAX : sys_waitpid_SHELL(t, pid, 4096, 0)
        \/ sys_exit_SHELL(t, 3)
        \/ sys_fork_SHELL(t)
        \/ \E fail \in ForkFails : fork_create_nomem(t, fail)
        \/ fork_thread_fail(t)
        \/ ProcStep(t)

SpecFork == InitFork /\ [][NextFork]_vars

(***************************************************************************)
(* Properties of the wait/exit rendezvous.                                 *)
(***************************************************************************)
(* thread t is in waitpid and has copied the result out to user memory *)
WaitResultWritten(t) ==
    threads[t].call = "waitpid" /\ threads[t].pc = "wp_destroy"

(* thread t returns from a successful waitpid(pid, &s, 0) *)
WaitReturned(t) ==
    /\ threads[t].call = "waitpid" /\ threads[t].pc = "ret"
    /\ threads[t].err = "OK"
    /\ threads[t].args[2] # NULL /\ threads[t].args[3] = 0

(* C1: when waitpid(C, &s, 0) of parent P succeeds, the pid returned is    *)
(* C's pid, C is a child of P that has called _exit(k), s is the status C  *)
(* stored in _exit for k, never a value read before C stored it, and C has *)
(* no thread left when the result is handed back.                          *)
RendezvousSafety ==
    \A t \in ProcObjs :
        /\ WaitResultWritten(t) =>
              LET th == threads[t]
                  C == procs[th.proc]
              IN  /\ C.alloc
                  /\ C.p_pid = th.args[1] /\ th.retval = th.args[1]
                  /\ C.parent_pid = procs[th.t_proc].p_pid
                  /\ C.exitcode # NOVAL
                  /\ th.ustatus = MKWAIT_EXIT(C.exitcode)
                  /\ C.p_numthreads = 0
        /\ WaitReturned(t) =>
              /\ threads[t].retval = threads[t].args[1]
              /\ threads[t].ustatus \in {MKWAIT_EXIT(k) : k \in ExitCodes}

(* a parent that slept on the child's condition variable returns the       *)
(* status of a child that called _exit(259)                                 *)
RendezvousSafetyWitness ==
    \E t \in ProcObjs :
        /\ WaitReturned(t)
        /\ threads[t].lk # NULL
        /\ threads[t].ustatus = MKWAIT_EXIT(259)

(* C2: no lost wakeup: a parent asleep in cv_wait on the condition         *)
(* variable of its child C is still going to be signalled, that is, C has  *)
(* not yet issued the cv_signal of its _exit; otherwise the parent sleeps  *)
(* forever and its waitpid never returns.                                  *)
NoLostWakeup ==
    \A t \in ProcObjs :
        threads[t].pc = "cv_sleep" =>
            LET c == threads[t].proc
            IN  threads[c].pc \notin {"none", "ex_release"}

(***************************************************************************)
(* Properties of the open-file objects and the descriptor tables.          *)
(***************************************************************************)
(* no system call is in progress *)
Quiet == \A t \in ProcObjs : threads[t].pc \in {"user", "none"}

(* the processes of the process table *)
InTable(o) == \E pid \in 1..PROC_MAX : processTable.proc[pid] = o

(* the descriptor slots, over the processes of the table, that refer to f *)
SlotsOf(f) ==
    {s \in ProcObjs \X Fds : InTable(s[1]) /\ procs[s[1]].fileTable[s[2]] = f}

(* C3: between system calls, every live open-file object (vn not null)     *)
(* has a reference count equal to the number of descriptor slots, over all *)
(* processes of the process table, that refer to it.                       *)
RefcountInvariant ==
    Quiet /\ ~panicked =>
        \A f \in OfIds :
            openfiles[f].vn # NULL => openfiles[f].count_refs = Cardinality(SlotsOf(f))

(* C4: when fork returns the child's pid to the parent, every descriptor   *)
(* that is open in the parent refers, in the child, to the same open-file  *)
(* object, which counts both references.                                   *)
ForkSharesOpenFiles ==
    \A t \in ProcObjs :
        (threads[t].pc = "ret" /\ threads[t].call = "fork" /\ threads[t].err = "OK") =>
            LET parent == procs[threads[t].t_proc]
                child == procs[threads[t].proc]
            IN  \A fd \in Fds :
                    parent.fileTable[fd] # NULL =>
                        /\ child.fileTable[fd] = parent.fileTable[fd]
                        /\ openfiles[parent.fileTable[fd]].count_refs >= 2

(* thread t is between lock_acquire and lock_release of a read or write *)
InTransfer(t) ==
    threads[t].pc \in {"wr_kinit", "wr_vop", "wr_release", "rd_kinit", "rd_vop", "rd_release"}

(* C5: for every open-file object at most one thread at a time is between  *)
(* the lock_acquire and the lock_release of a read or write on it, and the *)
(* byte count a writer is returned is the number of bytes it wrote, so     *)
(* that the offsets add up.                                                 *)
PerFileSerialisation ==
    /\ \A t, u \in ProcObjs :
          (t # u /\ InTransfer(t) /\ InTransfer(u)) => threads[t].of # threads[u].of
    /\ \A t \in ProcObjs :
          (threads[t].pc = "ret" /\ threads[t].call = "write" /\ threads[t].err = "OK")
              => threads[t].retval = threads[t].args[2]

(* C6: two distinct non-empty descriptor slots of a process refer to the   *)
(* same open-file object only if one was produced from the other by dup2   *)
(* (they have the same origin); the object a successful open installs is   *)
(* referred to by no other slot of the process.                            *)
FdUniqueness ==
    /\ \A o \in ProcObjs : \A fd1, fd2 \in Fds :
          (procs[o].alloc /\ fd1 # fd2 /\ procs[o].fileTable[fd1] # NULL
             /\ procs[o].fileTable[fd1] = procs[o].fileTable[fd2])
              => procs[o].origin[fd1] = procs[o].origin[fd2]
    /\ \A t \in ProcObjs :
          (threads[t].pc = "ret" /\ threads[t].call = "open" /\ threads[t].err = "OK"
             /\ threads[t].retval \in Fds)
              => \A fd \in Fds \ {threads[t].retval} :
                    procs[threads[t].t_proc].fileTable[fd]
                        # procs[threads[t].t_proc].fileTable[threads[t].retval]

(* thread t takes a step of an open, close or dup2 *)
FileTableCall(t) ==
    /\ threads[t].pc \notin {"none", "lock_sleep", "cv_sleep"}
    /\ threads'[t] # threads[t]
    /\ threads'[t].call \in {"open", "close", "dup2"}

(* C7: a step of an open, close or dup2 of one process leaves every slot   *)
(* of the file table of every other process unchanged; in particular what  *)
(* a child does after fork leaves its parent's table alone, and what the    *)
(* parent does leaves the child's.                                          *)
ForkIsolation ==
    [][\A t, o \in ProcObjs :
          (FileTableCall(t) /\ o # threads[t].t_proc)
              => procs'[o].fileTable = procs[o].fileTable]_vars

(* a child has opened a file on descriptor 3 and its parent, still alive,  *)
(* has nothing on descriptor 3                                              *)
ForkIsolationWitness ==
    \E t, o \in ProcObjs :
        /\ threads[t].pc = "ret" /\ threads[t].call = "open" /\ threads[t].err = "OK"
        /\ procs[o].alloc /\ procs[o].p_numthreads > 0
        /\ procs[threads[t].t_proc].parent_pid = procs[o].p_pid
        /\ procs[threads[t].t_proc].fileTable[3] # NULL
        /\ procs[o].fileTable[3] = NULL

(***************************************************************************)
(* Properties of the argument checks of waitpid.                           *)
(***************************************************************************)
(* thread t starts waitpid in this step *)
WaitpidCalled(t) ==
    /\ threads[t].pc = "user" /\ threads'[t].pc # "user"
    /\ threads'[t].call = "waitpid"

(* the call fails with error e at once: no sleep, nothing reaped, nothing  *)
(* written to user memory, the process table and the child lists untouched *)
FailsAtOnce(t, e) ==
    /\ threads'[t].pc = "ret" /\ threads'[t].err = e
    /\ threads'[t].retval = NOVAL /\ threads'[t].ustatus = NOVAL
    /\ UNCHANGED <<processTable, procs, cvs, locks>>

GoodStatusPtr(status) ==
    status # NULL /\ status % 4 = 0 /\ status # INVAL_PTR /\ status # KERN_PTR

NotAChild(me, pid) == \A i \in 1..Len(me.children_list) : me.children_list[i] # pid

(* C8 as stated: ECHILD for the caller's own pid and for every pid that is *)
(* not in the caller's child list, whatever the other arguments.           *)
WaitpidEchildAlways ==
    [][\A t \in ProcObjs : WaitpidCalled(t) =>
          LET me == procs[threads[t].t_proc]
              pid == threads'[t].args[1]
          IN  (pid = me.p_pid \/ NotAChild(me, pid)) => FailsAtOnce(t, "ECHILD")]_vars

(* C8, amended: ECHILD for the caller's own pid, and for a pid that is not *)
(* in the caller's child list when the status pointer is non-null, 4-byte  *)
(* aligned and neither 0x40000000 nor 0x80000000; the caller does not      *)
(* block, nothing is reaped, the table and the child lists are unchanged.  *)
WaitpidEchild ==
    [][\A t \in ProcObjs : WaitpidCalled(t) =>
          LET me == procs[threads[t].t_proc]
              pid == threads'[t].args[1]
              status == threads'[t].args[2]
          IN  (pid = me.p_pid \/ (NotAChild(me, pid) /\ GoodStatusPtr(status)))
                  => FailsAtOnce(t, "ECHILD")]_vars

(* a process has been refused the wait for a live process that is not its  *)
(* child                                                                    *)
WaitpidEchildWitness ==
    \E t \in ProcObjs :
        /\ threads[t].pc = "ret" /\ threads[t].call = "waitpid"
        /\ threads[t].err = "ECHILD"
        /\ GoodStatusPtr(threads[t].args[2])
        /\ threads[t].args[1] # procs[threads[t].t_proc].p_pid
        /\ \E o \in ProcObjs :
              /\ procs[o].alloc /\ procs[o].p_pid = threads[t].args[1]
              /\ procs[o].p_numthreads > 0

WaitpidBadStatus ==
    [][\A t \in ProcObjs : WaitpidCalled(t) =>
          LET me == procs[threads[t].t_proc]
              pid == threads'[t].args[1]
              status == threads'[t].args[2]
              options == threads'[t].args[3]
          IN  (pid # me.p_pid /\ options \in {0, WNOHANG}
                 /\ (status = NULL \/ status % 4 # 0))
                  => FailsAtOnce(t, "EFAULT")]_vars

(***************************************************************************)
(* Properties of waitpid with WNOHANG.                                     *)
(***************************************************************************)
(* C11: waitpid(child, &s, WNOHANG) on a child of the caller, with a valid *)
(* status pointer, returns at once with s = 0 and the child's pid, whether *)
(* the child is running or has exited; the caller does not sleep, and the  *)
(* child is not reaped: the process table, the proc structures (the child  *)
(* lists among them), the condition variables and the locks are unchanged. *)
WaitpidNoHang ==
    [][\A t \in ProcObjs : WaitpidCalled(t) =>
          LET me == procs[threads[t].t_proc]
              pid == threads'[t].args[1]
              status == threads'[t].args[2]
              options == threads'[t].args[3]
          IN  (options = WNOHANG /\ GoodStatusPtr(status) /\ is_child(me, pid) = 0)
                  => /\ threads'[t].pc = "ret" /\ threads'[t].err = "OK"
                     /\ threads'[t].retval = pid /\ threads'[t].ustatus = 0
                     /\ UNCHANGED <<processTable, procs, cvs, locks>>]_vars

(* waitpid with WNOHANG has returned the pid of a child that has already   *)
(* exited and is still in the process table and in the caller's child list *)
WaitpidNoHangWitness ==
    \E t \in ProcObjs :
        /\ threads[t].pc = "ret" /\ threads[t].call = "waitpid"
        /\ threads[t].err = "OK" /\ threads[t].args[3] = WNOHANG
        /\ threads[t].ustatus = 0 /\ threads[t].retval = threads[t].args[1]
        /\ is_child(procs[threads[t].t_proc], threads[t].args[1]) = 0
        /\ \E o \in ProcObjs :
              /\ InTable(o) /\ procs[o].p_pid = threads[t].args[1]
              /\ procs[o].exitcode # NOVAL /\ procs[o].p_numthreads = 0

(***************************************************************************)
(* Properties of the pid allocation.                                       *)
(***************************************************************************)
(* the first empty slot met in the circular order last_pid+1, ..., PROC_MAX, *)
(* 1, ..., last_pid; 0 when the n slots looked at are all occupied           *)
RECURSIVE CircularScan(_, _, _)
CircularScan(table, index, n) ==
    IF n = 0 THEN 0
    ELSE IF table[index] = NULL THEN index
    ELSE CircularScan(table, NextIndex(index), n - 1)

FirstEmptySlot(pt) == CircularScan(pt.proc, NextIndex(pt.last_pid), PROC_MAX)

(* C12: circular next-fit pid allocation: whenever a slot of the process   *)
(* table is given a process, the slot is the first empty one met in the    *)
(* circular scan from last_pid+1 (never slot 0), the process has that slot *)
(* as its pid and last_pid becomes that slot.  Hence a pid freed by a reap  *)
(* is not handed out again while another empty slot comes earlier in the   *)
(* circular order.                                                         *)
CircularNextFit ==
    [][\A pid \in Pids :
          (processTable'.proc[pid] # processTable.proc[pid]
              /\ processTable'.proc[pid] # NULL)
           => /\ pid # 0
              /\ pid = FirstEmptySlot(processTable)
              /\ procs'[processTable'.proc[pid]].p_pid = pid
              /\ processTable'.last_pid = pid]_vars

(* thread t starts fork in this step *)
ForkCalled(t) ==
    /\ threads[t].pc = "user" /\ threads'[t].pc # "user"
    /\ threads'[t].call = "fork"

(* no slot in 1..PROC_MAX of the process table is empty *)
TableFull(pt) == \A pid \in 1..PROC_MAX : pt.proc[pid] # NULL

(* C13: fork fails with ENPROC exactly when no slot in 1..PROC_MAX of the  *)
(* process table is empty at the call, wherever the empty slot lies        *)
(* relative to last_pid (the only empty slot may be last_pid itself); the  *)
(* failing call leaves the table, last_pid and the child lists unchanged.  *)
ForkEnprocExactlyWhenFull ==
    [][\A t \in ProcObjs : ForkCalled(t) =>
          /\ (threads'[t].pc = "ret" /\ threads'[t].err = "ENPROC")
                 <=> TableFull(processTable)
          /\ threads'[t].pc = "ret" => UNCHANGED <<processTable, procs>>]_vars

(* thread t is about to return from a successful fork *)
ForkReturned(t) ==
    threads[t].pc = "ret" /\ threads[t].call = "fork" /\ threads[t].err = "OK"

(* the child pid a successful fork returns is in 1..PROC_MAX and is the    *)
(* pid of no other process of the process table                            *)
ForkPidFresh(t) ==
    /\ threads[t].retval \in 1..PROC_MAX
    /\ \A o \in ProcObjs \ {threads[t].proc} :
          (procs[o].alloc /\ InTable(o)) => procs[o].p_pid # threads[t].retval

(* C14 as stated: the child pid a successful fork returns is strictly      *)
(* greater than the parent's pid, is in 1..PROC_MAX and differs from the   *)
(* pid of every other process in the process table.                        *)
ForkPidAboveParent ==
    \A t \in ProcObjs : ForkReturned(t) =>
        /\ threads[t].retval > procs[threads[t].t_proc].p_pid
        /\ ForkPidFresh(t)

(* C14, amended: the child pid a successful fork returns differs from the  *)
(* parent's pid (it may be smaller: the circular scan wraps to a slot      *)
(* freed by a reap), is in 1..PROC_MAX and differs from the pid of every   *)
(* other process in the process table.                                     *)
ForkPidDistinct ==
    \A t \in ProcObjs : ForkReturned(t) =>
        /\ threads[t].retval # procs[threads[t].t_proc].p_pid
        /\ ForkPidFresh(t)

(* a fork has returned a child pid smaller than the parent's pid, while    *)
(* another process is in the table                                          *)
ForkPidDistinctWitness ==
    \E t \in ProcObjs :
        /\ ForkReturned(t)
        /\ threads[t].retval < procs[threads[t].t_proc].p_pid
        /\ \E o \in ProcObjs \ {threads[t].proc, threads[t].t_proc} :
              procs[o].alloc /\ InTable(o)

(***************************************************************************)
(* Properties of open, close and dup2.                                     *)
(***************************************************************************)
(* the descriptors from 3 on whose slot is empty in process p *)
EmptyFds(p) == {fd \in 3..(OPEN_MAX - 1) : p.fileTable[fd] = NULL}

(* thread t is about to return from a successful call *)
Returned(t, call) ==
    threads[t].pc = "ret" /\ threads[t].call = call /\ threads[t].err = "OK"

(* what a successful open leaves behind: a descriptor from 3 to            *)
(* OPEN_MAX - 1 whose slot refers to an open-file object with reference    *)
(* count 1, a vnode and a lock                                              *)
OpenResult ==
    \A t \in ProcObjs : Returned(t, "open") =>
        /\ threads[t].retval \in 3..(OPEN_MAX - 1)
        /\ LET of == procs[threads[t].t_proc].fileTable[threads[t].retval]
           IN  /\ of # NULL
               /\ openfiles[of].count_refs = 1
               /\ openfiles[of].vn # NULL
               /\ openfiles[of].lock # NULL

(* C15: an open that has its system-table entry and finds an empty slot    *)
(* among 3..OPEN_MAX-1 takes the smallest such descriptor, OPEN_MAX-1      *)
(* included, and goes on to succeed with it; a successful open returns a   *)
(* descriptor in 3..OPEN_MAX-1 (never 0, 1 or 2) whose slot then refers to *)
(* an open-file object with reference count 1, a non-null vnode and a      *)
(* created lock.                                                            *)
OpenSmallestFd ==
    [][/\ \A t \in ProcObjs :
             (threads[t].pc = "op_claim" /\ threads'[t].pc # "op_claim"
                 /\ threads[t].of # NULL
                 /\ EmptyFds(procs[threads[t].t_proc]) # {})
              => LET free == EmptyFds(procs[threads[t].t_proc])
                     fd == CHOOSE x \in free : \A y \in free : x <= y
                 IN  /\ threads'[t].pc = "op_init"
                     /\ threads'[t].index = fd
                     /\ procs'[threads[t].t_proc].fileTable[fd] = threads[t].of
       /\ OpenResult'
      ]_vars

(* thread t starts the system call in this step *)
Called(t, call) ==
    /\ threads[t].pc = "user" /\ threads'[t].pc # "user"
    /\ threads'[t].call = call

(* thread t is inside a close, between its entry and its return to user mode *)
InClose(t) == threads[t].call = "close" /\ threads[t].pc \notin {"user", "none"}

(* the call thread t starts fails with EBADF at once and changes no slot,  *)
(* no open-file object and no lock                                          *)
FailsEbadf(t) ==
    /\ threads'[t].pc = "ret" /\ threads'[t].err = "EBADF"
    /\ UNCHANGED <<procs, openfiles, locks, filesize>>

(* C16: when close(fd) succeeds the slot fd of the caller is empty, and no *)
(* step taken while the close is in progress changes another slot of the   *)
(* caller; as long as slot fd stays empty a close(fd), read(fd), write(fd) *)
(* or dup2 from fd fails with EBADF.                                       *)
CloseEmptiesSlot ==
    [][\A t \in ProcObjs :
          /\ Returned(t, "close")' =>
                 procs'[threads'[t].t_proc].fileTable[threads'[t].args[1]] = NULL
          /\ InClose(t) =>
                 \A fd \in Fds \ {threads[t].args[1]} :
                    procs'[threads[t].t_proc].fileTable[fd]
                        = procs[threads[t].t_proc].fileTable[fd]
          /\ \A call \in {"close", "read", "write", "dup2"} :
                 (Called(t, call) /\ threads'[t].args[1] \in Fds
                     /\ procs[threads[t].t_proc].fileTable[threads'[t].args[1]] = NULL)
                  => FailsEbadf(t)]_vars

(* a descriptor that was open has been closed, and a later call on it has  *)
(* failed with EBADF                                                        *)
CloseEmptiesSlotWitness ==
    \E t \in ProcObjs :
        /\ threads[t].pc = "ret" /\ threads[t].err = "EBADF"
        /\ threads[t].call \in {"close", "read", "write", "dup2"}
        /\ threads[t].args[1] \in Fds
        /\ procs[threads[t].t_proc].origin[threads[t].args[1]] # 0
        /\ procs[threads[t].t_proc].fileTable[threads[t].args[1]] = NULL

(* the step calls vfs_close on the vnode of open-file object f: of->vn is  *)
(* set to NULL and the vnode is handed to vfs_close                        *)
VfsClosed(f) == openfiles[f].vn # NULL /\ openfiles'[f].vn = NULL

(* C17: the vnode of an open-file object is closed by the last closer:     *)
(* vfs_close is called on it only at a step that brings the reference      *)
(* count to zero and after which no descriptor slot refers to the object,  *)
(* and every step that brings the count to zero calls it and leaves the    *)
(* vnode pointer null, so that a later open can claim the entry.           *)
VnodeClosedByLastCloser ==
    [][\A f \in OfIds :
          /\ VfsClosed(f) =>
                 /\ openfiles'[f].count_refs = 0
                 /\ SlotsOf(f)' = {}
          /\ (openfiles[f].count_refs # 0 /\ openfiles'[f].count_refs = 0)
                 => openfiles'[f].vn = NULL]_vars

(* the per-file locks thread t owns *)
LocksHeld(t) == {l \in LockIds : ~IsProcLock(l) /\ locks[l].lk_owner = t}

(* thread t, in dup2(old, new) with new's slot occupied, takes the step    *)
(* that closes new: the slot goes from occupied to empty                   *)
Dup2ClosesNew(t) ==
    /\ threads[t].pc = "dup2_close"
    /\ procs[threads[t].t_proc].fileTable[threads[t].args[2]] # NULL
    /\ procs'[threads[t].t_proc].fileTable[threads[t].args[2]] = NULL

(* C18: dup2(old, new) with old # new, old's slot non-empty and new's slot *)
(* occupied completes: the step that closes new takes one reference from   *)
(* the object that was at new (its vnode is closed when the count reaches  *)
(* zero), changes no other slot and the kernel goes on; the call returns   *)
(* new with slot new referring to old's object and the caller holding no   *)
(* per-file lock.                                                           *)
Dup2OntoOpenDescriptor ==
    [][\A t \in ProcObjs :
          /\ Dup2ClosesNew(t) =>
                 LET me == threads[t].t_proc
                     of == threads[t].of
                 IN  /\ ~panicked'
                     /\ openfiles'[of].count_refs = openfiles[of].count_refs - 1
                     /\ openfiles'[of].count_refs = 0 => openfiles'[of].vn = NULL
                     /\ \A fd \in Fds \ {threads[t].args[2]} :
                           procs'[me].fileTable[fd] = procs[me].fileTable[fd]
          /\ (Returned(t, "dup2")' /\ threads'[t].args[1] # threads'[t].args[2]) =>
                 /\ threads'[t].retval = threads'[t].args[2]
                 /\ procs'[threads'[t].t_proc].fileTable[threads'[t].args[2]]
                       = procs'[threads'[t].t_proc].fileTable[threads'[t].args[1]]
                 /\ LocksHeld(t)' = {}]_vars

(* C19: dup2(fd, fd) on a descriptor whose slot is non-empty succeeds at   *)
(* once with fd written to retval, and changes no slot, reference count,   *)
(* offset or lock.                                                          *)
Dup2SameDescriptor ==
    [][\A t \in ProcObjs :
          (Called(t, "dup2") /\ threads'[t].args[1] = threads'[t].args[2]
              /\ threads'[t].args[1] \in Fds
              /\ procs[threads[t].t_proc].fileTable[threads'[t].args[1]] # NULL)
           => /\ threads'[t].pc = "ret" /\ threads'[t].err = "OK"
              /\ threads'[t].retval = threads'[t].args[1]
              /\ UNCHANGED <<procs, openfiles, locks>>]_vars

(* C20: descriptor validation.  read, write and close fail with EBADF when *)
(* fd is negative, fd >= OPEN_MAX or slot fd is empty; dup2 fails with     *)
(* EBADF when either descriptor is out of range or old's slot is empty;    *)
(* write on a descriptor opened read-only and read on a descriptor opened  *)
(* write-only fail with EBADF; in each case no per-file lock is acquired   *)
(* and no slot, reference count or offset changes.                         *)
DescriptorValidation ==
    [][\A t \in ProcObjs :
          LET me == procs[threads[t].t_proc]
              fd == threads'[t].args[1]
              new == threads'[t].args[2]
          IN  /\ \A call \in {"read", "write", "close"} :
                    (Called(t, call) /\ (fd \notin Fds \/ me.fileTable[fd] = NULL))
                        => FailsEbadf(t)
              /\ (Called(t, "dup2")
                     /\ (fd \notin Fds \/ new \notin Fds \/ me.fileTable[fd] = NULL))
                    => FailsEbadf(t)
              /\ (Called(t, "write") /\ fd \in Fds /\ me.fileTable[fd] # NULL
                     /\ me.opened[fd] = O_RDONLY)
                    => FailsEbadf(t)
              /\ (Called(t, "read") /\ fd \in Fds /\ me.fileTable[fd] # NULL
                     /\ me.opened[fd] = O_WRONLY)
                    => FailsEbadf(t)]_vars

(* C21: an open that has its system-table entry fails with EMFILE exactly  *)
(* when every slot 3..OPEN_MAX-1 of the caller's file table is occupied:   *)
(* never while one of them is empty, and always when none is, in which     *)
(* case no file-table index >= OPEN_MAX is read or written (the call does  *)
(* not go on with descriptor OPEN_MAX).                                    *)
OpenEmfileExactlyWhenFull ==
    [][\A t \in ProcObjs :
          (threads[t].pc = "op_claim" /\ threads'[t].pc # "op_claim"
              /\ threads[t].of # NULL)
           => ((threads'[t].pc = "ret" /\ threads'[t].err = "EMFILE")
                  <=> EmptyFds(procs[threads[t].t_proc]) = {})]_vars

(***************************************************************************)
(* Properties of process creation.                                         *)
(***************************************************************************)
(* the descriptor table of a process as proc_create_runprogram leaves it:  *)
(* 0, 1, 2 on three distinct console objects, read-only, write-only and    *)
(* write-only, each with reference count 1 and a lock no other open-file   *)
(* object has; every other slot empty                                       *)
ConsoleStart(o) ==
    LET ft == procs[o].fileTable
    IN  /\ \A fd \in 0..2 :
              /\ ft[fd] # NULL
              /\ openfiles[ft[fd]].vn = VN_CON
              /\ openfiles[ft[fd]].mode_open = (IF fd = 0 THEN O_RDONLY ELSE O_WRONLY)
              /\ openfiles[ft[fd]].count_refs = 1
              /\ openfiles[ft[fd]].offset = 0
              /\ openfiles[ft[fd]].lock # NULL
              /\ \A f \in OfIds \ {ft[fd]} : openfiles[f].lock # openfiles[ft[fd]].lock
              /\ SlotsOf(ft[fd]) \subseteq {<<o, fd>>}
        /\ \A fd \in 3..(OPEN_MAX - 1) : ft[fd] = NULL

ExecvStep(t) ==
    \/ threads[t].pc = "user" /\ threads'[t].call = "execv"
    \/ /\ threads[t].call = "execv" /\ threads[t].pc \in {"ex_open", "ex_load"}
       /\ threads'[t] # threads[t]

(* the slots of the process table that hold process structure o *)
TableSlots(o) == {i \in Pids : processTable.proc[i] = o}

(* C23: no step of execv, whether the call succeeds or returns an error,   *)
(* changes the caller's pid, its slot in the process table, its parent pid,*)
(* its child list or any slot of its file table, or the reference count or *)
(* offset of any open file.                                                 *)
ExecvFrame ==
    [][\A t \in ProcObjs :
          ExecvStep(t) =>
             LET me == threads[t].t_proc
             IN  /\ procs'[me].p_pid = procs[me].p_pid
                 /\ TableSlots(me)' = TableSlots(me)
                 /\ procs'[me].parent_pid = procs[me].parent_pid
                 /\ procs'[me].children_list = procs[me].children_list
                 /\ procs'[me].fileTable = procs[me].fileTable
                 /\ \A f \in OfIds :
                       /\ openfiles'[f].count_refs = openfiles[f].count_refs
                       /\ openfiles'[f].offset = openfiles[f].offset]_vars

(* a process with a child and an open file of its own has run execv with   *)
(* success, and in the new program has called execv again and has an error *)
(* to return                                                                *)
ExecvFrameWitness ==
    \E o \in ProcObjs :
        /\ procs[o].alloc /\ procs[o].p_addrspace = 2
        /\ procs[o].children_list # <<>>
        /\ procs[o].fileTable[3] # NULL
        /\ threads[o].call = "execv" /\ threads[o].pc = "ret"

(* C24: an execv that fails before the new address space is installed      *)
(* returns the error with the caller's address space the same object as    *)
(* before the call, not destroyed, and with no executable vnode left open:  *)
(* the steps of execv up to the installation leave the address space alone, *)
(* and one that ends the call returns an error and holds no vnode.          *)
ExecvFailsCleanly ==
    [][\A t \in ProcObjs :
          (ExecvStep(t) /\ threads[t].pc \in {"user", "ex_open"}
                        /\ threads'[t].pc # "ex_load") =>
             LET me == threads[t].t_proc
             IN  /\ procs'[me].p_addrspace = procs[me].p_addrspace
                 /\ procs'[me].p_addrspace \notin procs'[me].as_destroyed
                 /\ threads'[t].pc = "ret" =>
                       /\ threads'[t].err # "OK"
                       /\ procs'[me].execvn = 0]_vars

(* execv has failed because as_create failed after the executable was      *)
(* opened, and another execv because the file does not exist                *)
ExecvFailsCleanlyWitness ==
    /\ \E t \in ProcObjs :
          /\ threads[t].call = "execv" /\ threads[t].pc = "ret"
          /\ threads[t].err = "ENOMEM" /\ threads[t].args[1] = VN_PROG
          /\ threads[t].args[2] = ARGV_GOOD /\ threads[t].args[3] = 1
          /\ procs[threads[t].t_proc].p_addrspace = 1
    /\ \E t \in ProcObjs :
          /\ threads[t].call = "execv" /\ threads[t].pc = "ret"
          /\ threads[t].err = "ENOENT"
          /\ procs[threads[t].t_proc].p_addrspace = 1

(* C25: once execv has installed the new address space and destroyed the   *)
(* old one it never returns an error to the caller: no step of execv taken  *)
(* after the installation ends with a value to return.                      *)
ExecvNoReturnAfterInstall ==
    [][\A t \in ProcObjs :
          (ExecvStep(t) /\ threads[t].pc = "ex_load")
             => threads'[t].pc # "ret"]_vars

(***************************************************************************)
(* Properties of the sleep lock and the condition variable.                *)
(***************************************************************************)
(* thread t has returned from lock_acquire (or cv_wait) on the lock and    *)
(* has not called lock_release or cv_wait on it since                       *)
HoldsLock(t) == threads[t].pc = "k_held"

(* lock_do_i_hold(lock) asked by thread t *)
lock_do_i_hold(t) == locks[SynchLock].lk_owner = t

(* C26: at most one thread at a time has returned from lock_acquire(L)     *)
(* without yet releasing L, also when a woken waiter races with a new      *)
(* acquirer; lk_owner is that thread while L is held and NULL otherwise,   *)
(* and lock_do_i_hold is true for that thread and for no other.             *)
LockMutualExclusion ==
    /\ \A t, u \in ProcObjs : (HoldsLock(t) /\ HoldsLock(u)) => t = u
    /\ \A t \in ProcObjs : HoldsLock(t) <=> locks[SynchLock].lk_owner = t
    /\ (~\E t \in ProcObjs : HoldsLock(t)) <=> locks[SynchLock].lk_owner = NULL
    /\ \A t \in ProcObjs : lock_do_i_hold(t) <=> HoldsLock(t)

(* a thread holds the lock that it took ahead of a waiter that had been    *)
(* woken by the release and now has to test the owner again, while a third  *)
(* thread sleeps on the lock's channel                                      *)
LockMutualExclusionWitness ==
    \E t, u, v \in ProcObjs :
        /\ HoldsLock(t) /\ threads[t].call = "lock_acquire"
        /\ u # t /\ threads[u].pc = "lock_acquire" /\ threads[u].call = "cv_wait"
        /\ locks[SynchLock].lk_wchan = <<v>>

(* the threads asleep on the cv's wait channel *)
CvSleepers == {t \in ProcObjs : threads[t].pc = "cv_sleep"}
OnCvChannel == {cvs[SynchCv][i] : i \in 1..Len(cvs[SynchCv])}

(* the step is thread t's call of cv_signal, of cv_broadcast, of cv_wait:  *)
(* only the holder of the lock can change the channel                       *)
SignalStep(t) ==
    /\ HoldsLock(t) /\ threads'[t].call = "cv_signal"
    /\ threads[t].call # "cv_signal" \/ cvs' # cvs
BroadcastStep(t) ==
    /\ HoldsLock(t) /\ threads'[t].call = "cv_broadcast"
    /\ threads[t].call # "cv_broadcast" \/ cvs' # cvs
CvWaitStep(t) == HoldsLock(t) /\ ~HoldsLock(t)' /\ threads'[t].call = "cv_wait"

(* C27: once cv_wait has released L the waiter is asleep on the cv's wait  *)
(* channel, and stays there until a signal or a broadcast takes it off, so *)
(* that a cv_signal or cv_broadcast by a thread that acquired L afterwards *)
(* finds it; cv_signal wakes the first waiter and no other, cv_broadcast   *)
(* wakes all; a signal with no waiter leaves nothing behind (a later       *)
(* cv_wait sleeps all the same); cv_wait returns only with L held again.    *)
CvNoLostWakeup ==
    /\ [](CvSleepers = OnCvChannel /\ Cardinality(OnCvChannel) = Len(cvs[SynchCv]))
    /\ [](\A t \in ProcObjs :
             (threads[t].call = "cv_wait" /\ HoldsLock(t)) => lock_do_i_hold(t))
    /\ [][\A t \in ProcObjs :
             /\ CvWaitStep(t) =>
                   /\ threads'[t].pc = "cv_sleep"
                   /\ cvs'[SynchCv] = Append(cvs[SynchCv], t)
             /\ SignalStep(t) =>
                   IF CvSleepers = {} THEN cvs' = cvs /\ locks' = locks
                   ELSE /\ CvSleepers' = CvSleepers \ {Head(cvs[SynchCv])}
                        /\ threads'[Head(cvs[SynchCv])].pc = "lock_acquire"
             /\ BroadcastStep(t) =>
                   /\ CvSleepers' = {}
                   /\ \A w \in CvSleepers : threads'[w].pc = "lock_acquire"
             /\ (threads[t].pc = "cv_sleep" /\ threads'[t].pc # "cv_sleep") =>
                   \E s \in ProcObjs \ {t} : SignalStep(s) \/ BroadcastStep(s)
             /\ (threads[t].call = "cv_wait" /\ ~HoldsLock(t) /\ HoldsLock(t)') =>
                   /\ locks[SynchLock].lk_owner = NULL
                   /\ locks'[SynchLock].lk_owner = t]_vars

(* a thread is back from cv_wait holding the lock, a second waiter woken   *)
(* with it still waits for the lock, and a third thread, which called       *)
(* cv_wait after the wake-ups, is asleep on the cv's channel                *)
CvNoLostWakeupWitness ==
    \E t, u, v \in ProcObjs :
        /\ t # u
        /\ threads[t].call = "cv_wait" /\ HoldsLock(t)
        /\ threads[u].call = "cv_wait" /\ threads[u].pc \in {"lock_acquire", "lock_sleep"}
        /\ cvs[SynchCv] = <<v>>

(***************************************************************************)
(* Properties of process exit and reaping.                                 *)
(***************************************************************************)
(* the step destroys the structure of process o, which had called _exit *)
Reaped(o) == procs[o].alloc /\ ~procs'[o].alloc /\ procs[o].exitcode # NOVAL

(* C28: when a process that called _exit is reaped, every descriptor slot  *)
(* still non-empty goes through the close path: the reference count of its *)
(* open-file object goes down by one for each such slot, and an object left *)
(* with no reference has its vnode closed and its system slot freed (slots  *)
(* that _exit had closed before are empty by then).                          *)
ExitClosesDescriptors ==
    [][\A o \in ProcObjs :
          Reaped(o) =>
             \A f \in OfIds :
                LET n == Cardinality({fd \in Fds : procs[o].fileTable[fd] = f})
                IN  n > 0 =>
                       /\ openfiles'[f].count_refs = openfiles[f].count_refs - n
                       /\ openfiles'[f].count_refs = 0 => openfiles'[f].vn = NULL]_vars

(* process structure o is in the process table, has called _exit and was   *)
(* created by fork                                                          *)
ExitedChild(o) ==
    /\ procs[o].alloc /\ procs[o].exitcode # NOVAL /\ procs[o].p_numthreads = 0
    /\ TableSlots(o) # {}
    /\ procs[o].p_pid # 1

(* C29: every process that called _exit is eventually destroyed and its    *)
(* pid slot emptied, by its parent's waitpid or, when the parent is gone or *)
(* never waits, by some other agent; no exited process occupies a slot      *)
(* forever: once every thread has ended, so that nothing can run any more,  *)
(* no exited child is left in the table.                                    *)
ExitedProcessesAreReaped ==
    (~panicked /\ \A t \in ProcObjs : threads[t].pc = "none")
       => \A o \in ProcObjs : ~ExitedChild(o)

(***************************************************************************)
(* Properties of the process table.                                        *)
(***************************************************************************)
(* C30: in every interleaving of forks with each other and with waitpid /  *)
(* proc_destroy, every non-empty slot i in 1..PROC_MAX holds a process with *)
(* p_pid = i, no process is referenced from two slots, no slot that holds a *)
(* registered process is overwritten with another, and slot 0 always holds  *)
(* the kernel process.                                                      *)
ProcessTableInvariant ==
    /\ [](processTable.proc[0] = KPROC)
    /\ [](\A i \in 1..PROC_MAX :
             processTable.proc[i] # NULL => procs[processTable.proc[i]].p_pid = i)
    /\ [](\A i, j \in 1..PROC_MAX :
             (processTable.proc[i] # NULL /\ processTable.proc[i] = processTable.proc[j])
                => i = j)
    /\ [][\A i \in 1..PROC_MAX :
             processTable.proc[i] # NULL
                => processTable'.proc[i] \in {processTable.proc[i], NULL}]_vars

(***************************************************************************)
(* Progress of the sleep lock.                                             *)
(***************************************************************************)
(* the threads asleep in lock_acquire, and the lock's wait channel *)
LockSleepers == {t \in ProcObjs : threads[t].pc = "lock_sleep"}
OnLockChannel == {locks[SynchLock].lk_wchan[i] : i \in 1..Len(locks[SynchLock].lk_wchan)}

(* the threads made runnable inside lock_acquire, about to test the owner *)
LockTesters == {t \in ProcObjs : threads[t].pc = "lock_acquire"}

(* C31: lock_release clears the owner and wakes exactly one thread asleep  *)
(* on the lock's wait channel (none if none sleeps); a thread goes to sleep *)
(* on the channel only while the lock is owned, so that the lock is never   *)
(* free with a sleeper and nobody on the way to take it; under fair         *)
(* scheduling the lock does not stay free while a thread sleeps on it.       *)
LockProgress ==
    /\ [](LockSleepers = OnLockChannel
             /\ Cardinality(OnLockChannel) = Len(locks[SynchLock].lk_wchan))
    /\ []((locks[SynchLock].lk_owner = NULL /\ LockSleepers # {}) => LockTesters # {})
    /\ [][\A t \in ProcObjs :
             /\ (HoldsLock(t) /\ ~HoldsLock(t)') =>
                   /\ locks'[SynchLock].lk_owner = NULL
                   /\ IF LockSleepers = {} THEN LockTesters' = LockTesters
                      ELSE /\ LockSleepers' = LockSleepers \ {Head(locks[SynchLock].lk_wchan)}
                           /\ LockTesters' = LockTesters \cup {Head(locks[SynchLock].lk_wchan)}
             /\ (threads[t].pc # "lock_sleep" /\ threads'[t].pc = "lock_sleep") =>
                   /\ locks[SynchLock].lk_owner \notin {NULL, t}
                   /\ locks'[SynchLock].lk_owner = locks[SynchLock].lk_owner]_vars
    /\ \A t \in ProcObjs :
          (threads[t].pc = "lock_sleep" /\ locks[SynchLock].lk_owner = NULL)
             ~> (locks[SynchLock].lk_owner # NULL)

(* the lock has just been released with two threads asleep on it: the      *)
(* first is on its way to take the lock, the second still sleeps            *)
LockProgressWitness ==
    \E t, u \in ProcObjs :
        /\ locks[SynchLock].lk_owner = NULL
        /\ threads[t].pc = "lock_acquire" /\ threads[t].call = "lock_acquire"
        /\ locks[SynchLock].lk_wchan = <<u>>
        /\ \A x \in ProcObjs \ {t, u} : threads[x].pc = "k_idle" /\ threads[x].call = ""

(***************************************************************************)
(* Properties of the error paths of the file system calls.                 *)
(***************************************************************************)
(* C32: whenever read, write, close or dup2 returns, on success or on any  *)
(* error (a VOP_READ or VOP_WRITE error and a copyout failure in read      *)
(* included), the calling thread holds no per-file lock, so that a later    *)
(* call on the same open-file object neither blocks forever nor finds the   *)
(* caller already the owner in lock_acquire.                                *)
NoLockHeldOnReturn ==
    \A t \in ProcObjs :
        (threads[t].pc = "ret" /\ threads[t].call \in {"read", "write", "close", "dup2"})
           => LocksHeld(t) = {}

(* C33: a failed open is atomic: when open returns an error after vfs_open *)
(* succeeded (ENFILE, EMFILE, EINVAL, ENOMEM for the lock), no slot of the  *)
(* caller's file table is left filled by the call and the system-table      *)
(* entry the call had found free is free again, its vnode closed.           *)
FailedOpenIsAtomic ==
    \A t \in ProcObjs :
        (threads[t].pc = "ret" /\ threads[t].call = "open"
            /\ threads[t].err \in {"ENFILE", "EMFILE", "EINVAL", "ENOMEM"})
           => LET me == procs[threads[t].t_proc]
              IN  /\ \A fd \in Fds :
                        ~(me.fileTable[fd] # NULL /\ me.origin[fd] = threads[t].serial)
                  /\ threads[t].of # NULL => openfiles[threads[t].of].vn = NULL

(***************************************************************************)
(* Properties of the failure paths of fork.                                *)
(***************************************************************************)
(* the step ends thread t's fork with an error *)
ForkFailsNow(t) ==
    /\ threads[t].pc \in {"user", "fk_create", "fk_add", "fk_thread"}
    /\ threads'[t].pc = "ret" /\ threads'[t].call = "fork" /\ threads'[t].err # "OK"

(* C34: a failed fork leaves no trace: when fork returns an error, at      *)
(* whatever step, the process structure the call had created is in no slot *)
(* of the process table (the occupied slots are those from before the      *)
(* call), its pid is not in the caller's child list, and no slot refers to  *)
(* a process structure that has been freed.                                 *)
FailedForkLeavesNoTrace ==
    [][\A t \in ProcObjs :
          ForkFailsNow(t) =>
             LET new == threads'[t].proc
             IN  /\ new # NULL =>
                       /\ \A i \in Pids : processTable'.proc[i] # new
                       /\ is_child(procs'[threads[t].t_proc], procs'[new].p_pid) # 0
                 /\ \A i \in 1..PROC_MAX :
                       processTable'.proc[i] # NULL => procs'[processTable'.proc[i]].alloc]_vars


(***************************************************************************)
(* proc_destroy and the family links.                                      *)
(***************************************************************************)
(* the step frees the structure o, which was in use before it *)
DestroyedNow(o) == procs[o].alloc /\ ~procs'[o].alloc

(* the pids in the child list of p *)
ChildPids(p) == {p.children_list[i] : i \in 1..Len(p.children_list)}

(* thread t is about to call proc_destroy on o: waitpid after the status   *)
(* was copied out, or fork when thread_fork fails                           *)
AboutToDestroy(t, o) ==
    /\ threads[t].pc \in {"wp_destroy", "fk_thread"}
    /\ threads[t].proc = o

(* C35: when proc_destroy(P) completes, the slot of P's pid is empty, every *)
(* process of the table that was in P's child list is an orphan, P's child  *)
(* list is empty, the process that was P's parent no longer lists P's pid,  *)
(* the parent pid and the child list of every other process are unchanged;  *)
(* and proc_deinit never fails for a process that is about to be destroyed  *)
DestroyRelinksFamily ==
    /\ [](\A t \in ProcObjs : \A o \in ProcObjs :
             (~panicked /\ AboutToDestroy(t, o)) => proc_deinit(processTable, procs, o).ok)
    /\ [][\A o \in ProcObjs :
             DestroyedNow(o) =>
                LET P == procs[o]
                    parent == proc_search(processTable, procs, P.parent_pid)
                IN  /\ processTable'.proc[P.p_pid] = NULL
                    /\ procs'[o].children_list = <<>>
                    /\ \A q \in ProcObjs \ {o} :
                          procs[q].alloc =>
                             /\ procs'[q].parent_pid =
                                   IF procs[q].p_pid \in ChildPids(P)
                                       /\ \E i \in 1..PROC_MAX : processTable.proc[i] = q
                                   THEN -1 ELSE procs[q].parent_pid
                             /\ q = parent => is_child(procs'[q], P.p_pid) # 0
                             /\ q # parent =>
                                   procs'[q].children_list = procs[q].children_list]_vars

(* a parent with two children has reaped the first of them *)
DestroyRelinksFamilyWitness ==
    \E t \in ProcObjs : \E o \in ProcObjs :
        /\ threads[t].call = "waitpid" /\ threads[t].pc = "ret" /\ threads[t].err = "OK"
        /\ threads[t].proc = o /\ ~procs[o].alloc
        /\ procs[threads[t].t_proc].children_list # <<>>
        /\ ~panicked

(* how many entries of the child list of p are equal to pid *)
Listed(p, pid) ==
    Cardinality({i \in 1..Len(p.children_list) : p.children_list[i] = pid})

(* C36: when no call is in progress, the parent pid of every process of    *)
(* the table is -1 or names an occupied slot whose process lists the pid of *)
(* the process exactly once, and every pid of a child list names a process  *)
(* of the table whose parent pid is the pid of the owner of the list; a     *)
(* fork that returns a pid has made a process whose parent pid is the pid   *)
(* of the caller                                                            *)
FamilyLinkInvariant ==
    /\ Quiet =>
          \A i \in 1..PROC_MAX :
             LET q == processTable.proc[i]
             IN  q # NULL =>
                    /\ \/ procs[q].parent_pid = -1
                       \/ /\ procs[q].parent_pid \in 1..PROC_MAX
                          /\ processTable.proc[procs[q].parent_pid] # NULL
                          /\ Listed(procs[processTable.proc[procs[q].parent_pid]],
                                    procs[q].p_pid) = 1
                    /\ \A c \in ChildPids(procs[q]) :
                          /\ c \in 1..PROC_MAX
                          /\ processTable.proc[c] # NULL
                          /\ procs[processTable.proc[c]].p_pid = c
                          /\ procs[processTable.proc[c]].parent_pid = procs[q].p_pid
    /\ \A t \in ProcObjs :
          (threads[t].pc = "ret" /\ threads[t].call = "fork" /\ threads[t].err = "OK") =>
             procs[threads[t].proc].parent_pid = procs[threads[t].t_proc].p_pid

(* thread t is in waitpid past the test of the thread count or past the    *)
(* sleep of cv_wait, or in fork before thread_fork: proc_destroy of the     *)
(* process it holds is what it does next or soon                            *)
HoldsForDestroy(t) ==
    \/ /\ threads[t].call = "waitpid"
       /\ \/ threads[t].pc \in {"wp_release", "wp_status", "wp_destroy"}
          \/ threads[t].pc \in {"lock_acquire", "lock_sleep"} /\ threads[t].cont = "wp_release"
    \/ threads[t].call = "fork" /\ threads[t].pc = "fk_thread"

(* C37: a process that waitpid (on either path) or a failing fork is about *)
(* to destroy is a live structure other than the kernel process, its        *)
(* thread count is zero and no thread is attached to it                     *)
DestroyedOnlyAsZombie ==
    \A t \in ProcObjs :
       (~panicked /\ HoldsForDestroy(t)) =>
          LET o == threads[t].proc
          IN  /\ o \in ProcObjs /\ o # KPROC
              /\ procs[o].alloc
              /\ procs[o].p_numthreads = 0
              /\ \A u \in ProcObjs : threads[u].t_proc # o

(* a parent that slept in cv_wait has been woken by its child's _exit and  *)
(* is about to destroy the child                                            *)
DestroyedOnlyAsZombieWitness ==
    \E t \in ProcObjs :
        /\ threads[t].call = "waitpid" /\ threads[t].pc = "wp_release"
        /\ locks[threads[t].lk].lk_owner = t
        /\ procs[threads[t].proc].p_numthreads = 0
        /\ procs[threads[t].proc].exitcode # NOVAL
        /\ ~panicked

(* C38: descriptors that two different processes got from two open calls   *)
(* and that are past the set-up of their entries never refer to the same   *)
(* entry of the system open-file table, whatever the interleaving            *)
OpenSlotClaimSerialised ==
    \A o1, o2 \in ProcObjs : \A fd1, fd2 \in Fds :
       ( /\ o1 # o2 /\ procs[o1].alloc /\ procs[o2].alloc
         /\ procs[o1].fileTable[fd1] # NULL /\ procs[o2].fileTable[fd2] # NULL
         /\ procs[o1].origin[fd1] > 0 /\ procs[o2].origin[fd2] > 0
         /\ procs[o1].origin[fd1] # procs[o2].origin[fd2]
         /\ threads[o1].pc \notin {"op_claim", "op_init"}
         /\ threads[o2].pc \notin {"op_claim", "op_init"} )
          => procs[o1].fileTable[fd1] # procs[o2].fileTable[fd2]

(* C39: when a read or write that got as far as uio_kinit returns, the     *)
(* offset of its open file is the offset uio_kinit read plus the result if  *)
(* the call succeeded, and the offset uio_kinit read if the call returned   *)
(* an error; a read or write that fails the descriptor checks changes no    *)
(* open file                                                                *)
OffsetAccounting ==
    /\ [](\A t \in ProcObjs :
             ( /\ ~panicked
               /\ threads[t].pc = "ret" /\ threads[t].call \in {"read", "write"}
               /\ threads[t].err # "EBADF" ) =>
                openfiles[threads[t].of].offset =
                   threads[t].koff + (IF threads[t].err = "OK" THEN threads[t].retval ELSE 0))
    /\ [][\A t \in ProcObjs :
             ( /\ threads[t].pc = "user" /\ threads'[t].pc = "ret"
               /\ threads'[t].call \in {"read", "write"} ) => openfiles' = openfiles]_vars

(* thread t has detached from its process in _exit and has not yet         *)
(* finished lock_acquire, cv_signal and lock_release on the wait lock and   *)
(* the condition variable of that process                                   *)
InExitRendezvous(t) ==
    /\ threads[t].call = "exit"
    /\ threads[t].pc \in {"lock_acquire", "lock_sleep", "ex_signal", "ex_release"}

(* C40: while the exiting thread of a process is between proc_remthread    *)
(* and the end of its lock_release, the process structure has not been      *)
(* freed and its wait lock and condition variable have not been destroyed   *)
NoUseAfterDestroy ==
    \A t \in ProcObjs :
       InExitRendezvous(t) =>
          /\ procs[threads[t].proc].alloc
          /\ procs[threads[t].proc].sync
====
